---- MODULE Spec2Model ----
(***************************************************************************)
(* A model of the concurrent core of starry: the worker pool               *)
(* (utils/concurrent/thread_pool.rs), the server connection lifecycle      *)
(* (server/server.rs), the rate limiter (server/limit.rs) and the client   *)
(* connection pool (client/client.rs).  Each subsystem has its own         *)
(* specification; the variables of the other subsystems stay unchanged.    *)
(***************************************************************************)
EXTENDS Integers, Sequences, FiniteSets, TLC

(***************************************************************************)
(* Bounds of the model.                                                    *)
(***************************************************************************)
\* pool_size given to the Builder (thread_pool.rs:389)
PoolSize == 2
\* task_count given to the Builder (thread_pool.rs:414)
TaskCount == 1
\* number of tasks the caller submits
MaxTasks == 4
\* number of tasks that panic
MaxPanics == 1
\* number of ThreadPool handles the user holds at once
MaxHandles == 2
\* HttpServer.keepalive in clock ticks (server.rs:72)
KeepAlive == 2
\* number of requests the peer sends on the connection
MaxReqs == 3
\* the last tick of the connection's clock
MaxTime == 4
\* Limit.section in clock ticks (limit.rs:76)
Section == 3
\* Limit.count (limit.rs:76)
Count == 2
\* Limit.interval in clock ticks (limit.rs:76)
Interval == 1
\* number of requests that reach the limiter
MaxWaiters == 3
\* the last tick of the limiter's clock
MaxClock == 8
\* threads that call HttpClient::send
NumClients == 3
\* hosts the clients address
NumHosts == 2
\* capacity of a host's streamer channel, standing for Channel::bounded(10)
StreamCap == 2
\* connections the clients open to the host
MaxStreamers == 4
\* patterns registered under one method
MaxRoutes == 3
\* segments of a pattern or of a request path
MaxDepth == 2
\* filters of a route
MaxFilters == 3
\* calls of Context::response that one filter or handler makes
MaxCalls == 2
\* bytes (urlencoded) or lines (multipart) of a request body
MaxBody == 5
\* calls the handler makes on its context in one exchange
MaxOps == 3
\* the largest Content-Length, and the longest body read until EOF
MaxLen == 3
\* registrations made on the Root
MaxAdds == 2
\* the largest Time a cookie is given and the clock shows, in half seconds
MaxTicks == 3

VARIABLES
    \* ---- worker pool (thread_pool.rs) ----
    count,              \* PoolState.count
    active_count,       \* PoolState.active_count
    panic_count,        \* PoolState.panic_count
    threads,            \* ThreadPool.threads: Vec<Worker>, as worker ids
    threadsLock,        \* the RwLock around threads
    notify,             \* the unbounded tx_notify/rx_notify channel
    worker_idle_queue,  \* ArrayQueue<Worker> of capacity pool_size
    task_queue,         \* ArrayQueue<Task> of capacity task_count
    workers,            \* every worker thread: state, Sentinel.counter, rx_execute
    monitor,            \* the notify_check thread
    handles,            \* ThreadPool handles held by the user
    caller,             \* the thread inside ThreadPool::execute
    nextTask,           \* the next task the caller submits
    started,            \* tasks some worker has begun to run
    rejected,           \* tasks execute answered with "the task queue is full"
    lastExec,           \* what the last execute call saw and answered
    closeSent,          \* ThreadPool::drop has sent Close
    \* ---- one server connection (server.rs) ----
    connPc,             \* where the worker running handle_connection stands
    cur,                \* the request exec_stream is serving
    keepalive,          \* handle_connection's keepalive
    inbox,              \* requests the peer has sent and the server has not read
    sentReqs,           \* number of requests the peer has sent
    peerClosed,         \* the peer has closed its end
    sockShut,           \* shutdown(Shutdown::Both) was called on the socket
    wdPc,               \* the check_keepalive thread
    expect_time,        \* check_keepalive's expect_time
    channel,            \* loop_exec's Channel<Check>
    exchanges,          \* the requests read so far, in order
    now,                \* Time::now() in ticks
    wdTimedOut,         \* check_keepalive left its loop on the deadline
    lastUpdate,         \* the clock at loop_exec's latest send of Check::Update
    shutInfo,           \* the clock and lastUpdate at check_keepalive's shutdown
    responses,          \* ids of the requests whose response write has returned
    \* ---- the rate limiter (limit.rs) ----
    times,              \* Limit.times
    tokens,             \* number of () in Limit.channel, bounded(count)
    runPc,              \* where the thread in Limit::run stands
    time_now,           \* Limit::run's time_now
    waiting,            \* requests blocked in Limit::recv
    arrived,            \* requests that reached check_limit so far
    admissions,         \* the clock at every successful Limit::recv, in order
    clock,              \* Time::now() in ticks, for the limiter
    \* ---- the client's connection pool (client.rs) ----
    cli,                \* per calling thread: where its HttpClient::send stands
    streamMap,          \* CLIENT_STREAM_MAP: host -> the streamers in its channel
    mapReaders,         \* threads that hold a read guard of CLIENT_STREAM_MAP
    nextStreamer,       \* streamers created so far
    \* ---- one host's streamer channel, once it exists (client.rs) ----
    reuseChan,          \* the streamers in the host's Channel<TcpStreamer>
    reusePc,            \* per calling thread: where its HttpClient::send stands
    reuseHeld,          \* per calling thread: the streamer obtain returned to it
    reuseWriter,        \* the thread that holds the channel's RwLock write guard
    reuseNext,          \* streamers created so far for the host
    \* ---- the route tree of one method (node.rs) ----
    nodes,              \* the Nodes of the tree, nodes[1] the root; next_nodes by index
    routes,             \* the patterns registered so far, in order
    fetched,            \* the latest Root::fetch and what exec_stream made of it
    \* ---- one exchange's context, filters and handler (extend.rs, context.rs) ----
    filters,            \* per filter of the route: its calls of context.response()
    handlerCalls,       \* the handler's calls of context.response()
    exPc,               \* where exec_stream stands in the exchange
    filterIndex,        \* filters that check_filter's loop has passed
    executed,           \* Context.executed
    filtersRun,         \* the filters that ran, in order
    handlerRuns,        \* invocations of the handler in this exchange
    written,            \* responses written to the socket in this exchange
    limit,              \* Extend.limit of the route and what its recv returns
    forbidden,          \* check_limit answered the exchange with 403
    origin,             \* per filter of the route: the Extend and the place it is from
    \* ---- one request's body and its lazily parsed form (requester.rs, body.rs) ----
    content_type,       \* Request.content_type, by its kind
    reader,             \* Body.reader, the received body not yet taken
    body_parse,         \* Request.body_parse
    form,               \* Request.form, as (key, value) pairs
    multipart_form,     \* Request.multipart_form, as (name, FileHeader) pairs
    fmPc,               \* where the handler of the exchange stands
    wire,               \* the responses written to the socket in this exchange
    interruptAt,        \* the length of wire right after interrupt wrote, else 0
    parses,             \* runs of parse_body in this exchange
    firstForm,          \* form and multipart_form as the first parse_body left them
    lastCall,           \* the handler's latest accessor call and what it returned
    ops,                \* calls the handler has made in this exchange
    \* ---- reading one request's body off the stream (requester.rs fill_body) ----
    fillPc,             \* where fill_body stands
    content_len,        \* the Content-Length header, parsed as isize
    sent,               \* the body bytes the client sends
    incoming,           \* the body bytes that no read has returned yet
    bw,                 \* the writer the body is collected in
    fbLen,              \* fill_body's len
    fbCount,            \* fill_body's count
    fbSize,             \* fill_body's size
    \* ---- parsing one request (request.rs Request::parse) ----
    psPc,               \* where exec_stream stands with the request
    psReq,              \* the request the peer sent
    psStatus,           \* the status interrupt wrote, "" when none
    psHandled,          \* extend.exec and the handler have run
    \* ---- Header::check_close (header.rs) ----
    ccHeader,           \* the Header check_close is given, as (key, value) pairs
    ccVersion,          \* the version check_close is given
    ccRemove,           \* the remove flag check_close is given
    ccResult,           \* what check_close returned: "none" before the call
    \* ---- the Root and its twelve trees (node.rs) ----
    roots,              \* the Root: per field, the nodes of that tree
    rtAdded,            \* the (method, pattern) pairs registered so far
    rtPrev,             \* roots as it was before the latest Root::add
    rtLast,             \* the method of the latest Root::add, "" before the first
    rtFetched,          \* the latest Root::fetch and whether it found a node
    \* ---- Header::get_accept_encoding (header.rs, encode_type.rs) ----
    aeHeader,           \* the Accept-Encoding value, as its pieces between commas
    aeResult,           \* what get_accept_encoding returned: "unset" before the call
    \* ---- Method::from_bytes, Method::as_str (method.rs) ----
    mtSrc,              \* the bytes from_bytes was given
    mtOf,               \* the Method whose as_str gave the bytes, "none" for other bytes
    mtResult,           \* what from_bytes returned; pending before the call
    \* ---- Cookie::to_string, Cookie::read_set_cookies (cookie.rs) ----
    ckPc,               \* "idle", "set" (the header holds the cookie), "read"
    ckCookie,           \* the Cookie given to add_set_cookie
    ckHeader,           \* the Set-Cookie value: its pieces between ";", each split at "="
    ckRead,             \* what read_set_cookies returned
    \* ---- one pooled TcpStreamer and its check_keepalive (client.rs) ----
    skPc,               \* where the client stands with the streamer
    skAlive,            \* TcpStreamer.alive
    skChannel,          \* TcpStreamer.channel: Channel::bounded(1) of Check
    skWd,               \* the streamer's check_keepalive thread
    skExpect,           \* check_keepalive's expect_time
    skNow,              \* Time::now() in ticks
    skShutAt,           \* the clock at shutdown(Shutdown::Both), NoTime before it
    skHandedAt,         \* the clock when obtain last returned the pooled streamer
    skBreak,            \* the caller has sent Check::Break
    skUses,             \* how often obtain has taken the streamer from the pool
    \* ---- the loops that read a body of Content-Length bytes ----
    \* ---- (request.rs Request::parse, requester.rs Requester::fill_body) ----
    rdPc,               \* "idle", "loop", "done" (the parser has returned)
    rdParser,           \* which of the two parsers reads: "Request" or "Requester"
    rdLen,              \* len: the Content-Length the loop compares with
    rdIncoming,         \* body bytes that have arrived and are not yet read
    rdToSend,           \* body bytes the peer will still send
    rdClosed,           \* the peer has closed the connection
    rdCount,            \* count
    rdSize              \* size: what the latest read returned

poolVars == <<count, active_count, panic_count, threads, threadsLock, notify,
              worker_idle_queue, task_queue, workers, monitor, handles, caller,
              nextTask, started, rejected, lastExec, closeSent>>

connVars == <<connPc, cur, keepalive, inbox, sentReqs, peerClosed, sockShut, wdPc,
              expect_time, channel, exchanges, now, wdTimedOut, lastUpdate, shutInfo,
             responses>>

limVars == <<times, tokens, runPc, time_now, waiting, arrived, admissions, clock>>

cliVars == <<cli, streamMap, mapReaders, nextStreamer>>

reuseVars == <<reuseChan, reusePc, reuseHeld, reuseWriter, reuseNext>>

routeVars == <<nodes, routes, fetched>>

ctxVars == <<filters, handlerCalls, exPc, filterIndex, executed, filtersRun,
             handlerRuns, written, limit, forbidden, origin>>

formVars == <<content_type, reader, body_parse, form, multipart_form, fmPc, wire,
              interruptAt, parses, firstForm, lastCall, ops>>

fillVars == <<fillPc, content_len, sent, incoming, bw, fbLen, fbCount, fbSize>>

parseVars == <<psPc, psReq, psStatus, psHandled>>

closeVars == <<ccHeader, ccVersion, ccRemove, ccResult>>

rootVars == <<roots, rtAdded, rtPrev, rtLast, rtFetched>>

encVars == <<aeHeader, aeResult>>

methodVars == <<mtSrc, mtOf, mtResult>>

cookieVars == <<ckPc, ckCookie, ckHeader, ckRead>>

streamerVars == <<skPc, skAlive, skChannel, skWd, skExpect, skNow, skShutAt, skHandedAt, skBreak, skUses>>

readVars == <<rdPc, rdParser, rdLen, rdIncoming, rdToSend, rdClosed, rdCount, rdSize>>

vars == <<poolVars, connVars, limVars, cliVars, reuseVars, routeVars, ctxVars, formVars, fillVars, parseVars, closeVars, rootVars, encVars, methodVars, cookieVars, streamerVars, readVars>>

nonPoolVars == <<connVars, limVars, cliVars, reuseVars, routeVars, ctxVars, formVars, fillVars, parseVars, closeVars, rootVars, encVars, methodVars, cookieVars, streamerVars, readVars>>

nonConnVars == <<poolVars, limVars, cliVars, reuseVars, routeVars, ctxVars, formVars, fillVars, parseVars, closeVars, rootVars, encVars, methodVars, cookieVars, streamerVars, readVars>>

nonLimVars == <<poolVars, connVars, cliVars, reuseVars, routeVars, ctxVars, formVars, fillVars, parseVars, closeVars, rootVars, encVars, methodVars, cookieVars, streamerVars, readVars>>

nonCliVars == <<poolVars, connVars, limVars, reuseVars, routeVars, ctxVars, formVars, fillVars, parseVars, closeVars, rootVars, encVars, methodVars, cookieVars, streamerVars, readVars>>

nonReuseVars == <<poolVars, connVars, limVars, cliVars, routeVars, ctxVars, formVars, fillVars, parseVars, closeVars, rootVars, encVars, methodVars, cookieVars, streamerVars, readVars>>

nonRouteVars == <<poolVars, connVars, limVars, cliVars, reuseVars, ctxVars, formVars, fillVars, parseVars, closeVars, rootVars, encVars, methodVars, cookieVars, streamerVars, readVars>>

nonCtxVars == <<poolVars, connVars, limVars, cliVars, reuseVars, routeVars, formVars, fillVars, parseVars, closeVars, rootVars, encVars, methodVars, cookieVars, streamerVars, readVars>>

nonFormVars == <<poolVars, connVars, limVars, cliVars, reuseVars, routeVars, ctxVars, fillVars, parseVars, closeVars, rootVars, encVars, methodVars, cookieVars, streamerVars, readVars>>

nonFillVars == <<poolVars, connVars, limVars, cliVars, reuseVars, routeVars, ctxVars, formVars, parseVars, closeVars, rootVars, encVars, methodVars, cookieVars, streamerVars, readVars>>

nonParseVars == <<poolVars, connVars, limVars, cliVars, reuseVars, routeVars, ctxVars, formVars, fillVars, closeVars, rootVars, encVars, methodVars, cookieVars, streamerVars, readVars>>

nonCloseVars == <<poolVars, connVars, limVars, cliVars, reuseVars, routeVars, ctxVars, formVars, fillVars, parseVars, rootVars, encVars, methodVars, cookieVars, streamerVars, readVars>>

nonRootVars == <<poolVars, connVars, limVars, cliVars, reuseVars, routeVars, ctxVars, formVars, fillVars, parseVars, closeVars, encVars, methodVars, cookieVars, streamerVars, readVars>>

nonEncVars == <<poolVars, connVars, limVars, cliVars, reuseVars, routeVars, ctxVars, formVars, fillVars, parseVars, closeVars, rootVars, methodVars, cookieVars, streamerVars, readVars>>

nonMethodVars == <<poolVars, connVars, limVars, cliVars, reuseVars, routeVars, ctxVars, formVars, fillVars, parseVars, closeVars, rootVars, encVars, cookieVars, streamerVars, readVars>>

nonCookieVars == <<poolVars, connVars, limVars, cliVars, reuseVars, routeVars, ctxVars, formVars, fillVars, parseVars, closeVars, rootVars, encVars, methodVars, streamerVars, readVars>>

nonStreamerVars == <<poolVars, connVars, limVars, cliVars, reuseVars, routeVars, ctxVars, formVars, fillVars, parseVars, closeVars, rootVars, encVars, methodVars, cookieVars, readVars>>

nonReadVars == <<poolVars, connVars, limVars, cliVars, reuseVars, routeVars, ctxVars, formVars, fillVars, parseVars, closeVars, rootVars, encVars, methodVars, cookieVars, streamerVars>>

(***************************************************************************)
(* Worker pool                                                             *)
(***************************************************************************)
MaxWorkers == PoolSize + MaxPanics

\* enum Message
Message(type, task) == [type |-> type, task |-> task]

\* enum Notify
Notify(type, counter) == [type |-> type, counter |-> counter]

\* Vec::remove(index), index counted from 0
VecRemove(v, index) ==
    [k \in 1..(Len(v) - 1) |-> IF k <= index THEN v[k] ELSE v[k + 1]]

\* Vec::insert(index, e), index counted from 0
VecInsert(v, index, e) ==
    [k \in 1..(Len(v) + 1) |->
        IF k <= index THEN v[k] ELSE IF k = index + 1 THEN e ELSE v[k - 1]]

\* AtomicCell<usize>::fetch_sub(1): the new value.  The counters never stand at 0
\* when a handle or a sentinel is dropped (CountersNeverWrap), so no wrap occurs.
FetchSub(c) == c - 1

\* Worker::send: tx_execute.send(msg) on the worker's unbounded channel
WorkerSend(ws, w, msg) == [ws EXCEPT ![w].rx = Append(@, msg)]

\* the tasks delivered to some worker and not yet taken from its channel
Delivered ==
    UNION {{workers[w].rx[k].task : k \in 1..Len(workers[w].rx)} : w \in 1..MaxWorkers}

\* Builder::create and ThreadPool::init
PoolInit ==
    /\ count = 2
    /\ active_count = PoolSize
    /\ panic_count = 0
    /\ threads = [i \in 1..PoolSize |-> i]
    /\ threadsLock = [writer |-> "none", poisoned |-> FALSE]
    /\ notify = <<>>
    /\ worker_idle_queue = [i \in 1..PoolSize |-> i]
    /\ task_queue = <<>>
    /\ workers = [w \in 1..MaxWorkers |->
                    [st |-> IF w <= PoolSize THEN "recv" ELSE "unborn",
                     counter |-> IF w <= PoolSize THEN w - 1 ELSE 0,
                     rx |-> <<>>, task |-> 0]]
    /\ monitor = [pc |-> "recv", counter |-> 0, worker |-> 0]
    /\ handles = 1
    /\ caller = [pc |-> "ready", task |-> 0]
    /\ nextTask = 1
    /\ started = {}
    /\ rejected = {}
    /\ lastExec = [task |-> 0, idle |-> <<>>, queue |-> <<>>, result |-> "none"]
    /\ closeSent = FALSE

\* ThreadPool::execute, first half: worker_idle_queue.pop() and, with a worker,
\* res.send(Message::Run(task))
ExecutePop ==
    /\ caller.pc = "ready"
    /\ handles > 0
    /\ nextTask <= MaxTasks
    /\ nextTask' = nextTask + 1
    /\ IF worker_idle_queue # <<>>
       THEN LET w == Head(worker_idle_queue) IN
            /\ worker_idle_queue' = Tail(worker_idle_queue)
            /\ IF workers[w].st \in {"recv", "running"}
               THEN /\ workers' = WorkerSend(workers, w, Message("Run", nextTask))
                    /\ lastExec' = [task |-> nextTask, idle |-> worker_idle_queue,
                                    queue |-> task_queue, result |-> "run"]
               ELSE \* send on a disconnected channel: unwrap panics
                    /\ workers' = workers
                    /\ lastExec' = [task |-> nextTask, idle |-> worker_idle_queue,
                                    queue |-> task_queue, result |-> "panic"]
            /\ UNCHANGED caller
       ELSE /\ caller' = [pc |-> "push", task |-> nextTask]
            /\ lastExec' = [task |-> nextTask, idle |-> <<>>,
                            queue |-> task_queue, result |-> "pending"]
            /\ UNCHANGED <<worker_idle_queue, workers>>
    /\ UNCHANGED <<count, active_count, panic_count, threads, threadsLock, notify,
                   task_queue, monitor, handles, started, rejected, closeSent>>
    /\ UNCHANGED nonPoolVars

\* a slip of execute: the task is pushed although the queue is full
ExecutePushUnbounded ==
    /\ caller.pc = "push"
    /\ task_queue' = Append(task_queue, caller.task)
    /\ lastExec' = [lastExec EXCEPT !.queue = task_queue, !.result = "queued"]
    /\ caller' = [pc |-> "ready", task |-> 0]
    /\ UNCHANGED <<count, active_count, panic_count, threads, threadsLock, notify,
                   worker_idle_queue, workers, monitor, handles, nextTask,
                   started, rejected, closeSent>>
    /\ UNCHANGED nonPoolVars

\* ThreadPool::execute, second half: task_queue.push(task)
ExecutePush ==
    /\ caller.pc = "push"
    /\ IF Len(task_queue) < TaskCount
       THEN /\ task_queue' = Append(task_queue, caller.task)
            /\ lastExec' = [lastExec EXCEPT !.queue = task_queue, !.result = "queued"]
            /\ UNCHANGED rejected
       ELSE /\ rejected' = rejected \cup {caller.task}
            /\ lastExec' = [lastExec EXCEPT !.queue = task_queue, !.result = "full"]
            /\ UNCHANGED task_queue
    /\ caller' = [pc |-> "ready", task |-> 0]
    /\ UNCHANGED <<count, active_count, panic_count, threads, threadsLock, notify,
                   worker_idle_queue, workers, monitor, handles, nextTask,
                   started, closeSent>>
    /\ UNCHANGED nonPoolVars

\* Worker::work: rx.recv() and the match on the message
WorkerRecv(w) ==
    /\ workers[w].st = "recv"
    /\ workers[w].rx # <<>>
    /\ LET msg == Head(workers[w].rx) IN
       IF msg.type = "Run"
       THEN /\ workers' = [workers EXCEPT ![w].rx = Tail(@), ![w].st = "running",
                                          ![w].task = msg.task]
            /\ started' = started \cup {msg.task}
       ELSE \* Message::Close: break, sentinel.cancel()
            /\ workers' = [workers EXCEPT ![w].rx = <<>>, ![w].st = "exited"]
            /\ UNCHANGED started
    /\ UNCHANGED <<count, active_count, panic_count, threads, threadsLock, notify,
                   worker_idle_queue, task_queue, monitor, handles, caller,
                   nextTask, rejected, lastExec, closeSent>>
    /\ UNCHANGED nonPoolVars

\* Worker::work: task.run() returns, Notify::Idle(counter) is sent
WorkerFinish(w) ==
    /\ workers[w].st = "running"
    /\ notify' = Append(notify, Notify("Idle", workers[w].counter))
    /\ workers' = [workers EXCEPT ![w].st = "recv", ![w].task = 0]
    /\ UNCHANGED <<count, active_count, panic_count, threads, threadsLock,
                   worker_idle_queue, task_queue, monitor, handles, caller,
                   nextTask, started, rejected, lastExec, closeSent>>
    /\ UNCHANGED nonPoolVars

\* task.run() panics: the thread unwinds and Sentinel::drop runs while active
WorkerPanic(w) ==
    /\ workers[w].st = "running"
    /\ panic_count < MaxPanics
    /\ active_count' = FetchSub(active_count)
    /\ panic_count' = panic_count + 1
    /\ notify' = Append(notify, Notify("Fill", workers[w].counter))
    /\ workers' = [workers EXCEPT ![w].st = "panicked", ![w].rx = <<>>, ![w].task = 0]
    /\ UNCHANGED <<count, threads, threadsLock, worker_idle_queue, task_queue,
                   monitor, handles, caller, nextTask, started, rejected,
                   lastExec, closeSent>>
    /\ UNCHANGED nonPoolVars

\* the worker Worker::new spawns next
NewWorker == CHOOSE w \in 1..MaxWorkers :
    /\ workers[w].st = "unborn"
    /\ \A v \in 1..MaxWorkers : workers[v].st = "unborn" => w <= v

\* Drop for ThreadPool, on a handle whose fetch_sub returned prev: what it sends
DropSends(prev, ws) ==
    IF prev = 0
    THEN [k \in 1..MaxWorkers |->
            IF \E j \in 1..Len(threads) : threads[j] = k
            THEN [ws[k] EXCEPT !.rx = Append(@, Message("Close", 0))]
            ELSE ws[k]]
    ELSE ws

\* ThreadPool::notify_check: rx_notify.recv() and the match on the notification;
\* the Fill arm up to the call of self.insert
MonitorRecv ==
    /\ monitor.pc = "recv"
    /\ notify # <<>>
    /\ LET n == Head(notify) IN
       /\ CASE n.type = "Fill" ->
                 \* self.threads.write().unwrap(); tsw.remove(counter); Worker::new
                 /\ threadsLock.writer = "none"
                 /\ notify' = Tail(notify)
                 /\ IF threadsLock.poisoned \/ n.counter >= Len(threads)
                    THEN /\ monitor' = [monitor EXCEPT !.pc = "panicked"]
                         /\ count' = FetchSub(count)
                         /\ UNCHANGED <<threads, threadsLock, workers>>
                    ELSE /\ threadsLock' = [threadsLock EXCEPT !.writer = "monitor"]
                         /\ threads' = VecRemove(threads, n.counter)
                         /\ workers' = [workers EXCEPT ![NewWorker] =
                                [st |-> "recv", counter |-> n.counter,
                                 rx |-> <<>>, task |-> 0]]
                         /\ monitor' = [pc |-> "fill_insert", counter |-> n.counter,
                                        worker |-> NewWorker]
                         /\ UNCHANGED count
                 /\ UNCHANGED <<worker_idle_queue, task_queue, closeSent>>
            [] n.type = "Idle" ->
                 \* self.threads.read().unwrap(); threads_r.get(counter).unwrap()
                 /\ threadsLock.writer = "none"
                 /\ notify' = Tail(notify)
                 /\ IF threadsLock.poisoned \/ n.counter >= Len(threads)
                    THEN /\ monitor' = [monitor EXCEPT !.pc = "panicked"]
                         /\ count' = FetchSub(count)
                         /\ UNCHANGED <<workers, worker_idle_queue, task_queue>>
                    ELSE LET thread == threads[n.counter + 1] IN
                         IF task_queue # <<>>
                         THEN /\ task_queue' = Tail(task_queue)
                              /\ workers' = WorkerSend(workers, thread,
                                               Message("Run", Head(task_queue)))
                              /\ UNCHANGED <<monitor, count, worker_idle_queue>>
                         ELSE IF Len(worker_idle_queue) < PoolSize
                              THEN /\ worker_idle_queue' =
                                          Append(worker_idle_queue, thread)
                                   /\ UNCHANGED <<monitor, count, workers, task_queue>>
                              ELSE \* "the thread idle queue is full": panic!
                                   /\ monitor' = [monitor EXCEPT !.pc = "panicked"]
                                   /\ count' = FetchSub(count)
                                   /\ UNCHANGED <<workers, worker_idle_queue,
                                                  task_queue>>
                 /\ UNCHANGED <<threads, threadsLock, closeSent>>
            [] n.type = "Close" ->
                 \* break: notify_check returns and pool_c is dropped
                 /\ notify' = IF count = 0
                              THEN Append(Tail(notify), Notify("Close", 0))
                              ELSE Tail(notify)
                 /\ monitor' = [monitor EXCEPT !.pc = "exited"]
                 /\ workers' = DropSends(count, workers)
                 /\ closeSent' = (closeSent \/ count = 0)
                 /\ count' = FetchSub(count)
                 /\ UNCHANGED <<threads, threadsLock, worker_idle_queue, task_queue>>
    /\ UNCHANGED <<active_count, panic_count, handles, caller, nextTask, started,
                   rejected, lastExec>>
    /\ UNCHANGED nonPoolVars

\* ThreadPool::notify_check, the rest of the Fill arm: self.insert(counter, worker),
\* which takes self.threads.write() while the arm's own guard tsw is alive, then
\* active_count.fetch_add(1).  A thread that asks for a std RwLock it already
\* holds blocks for ever or panics, as the platform decides.
MonitorInsert ==
    /\ monitor.pc = "fill_insert"
    /\ IF threadsLock.writer = "monitor"
       THEN \E outcome \in {"deadlock", "panicked"} :
            /\ monitor' = [monitor EXCEPT !.pc = outcome]
            /\ IF outcome = "panicked"
               THEN \* unwinding drops tsw (poisoning the lock) and pool_c
                    /\ threadsLock' = [writer |-> "none", poisoned |-> TRUE]
                    /\ count' = FetchSub(count)
               ELSE UNCHANGED <<threadsLock, count>>
            /\ UNCHANGED <<threads, active_count>>
       ELSE /\ threadsLock.writer = "none"
            /\ threads' = VecInsert(threads, monitor.counter, monitor.worker)
            /\ active_count' = active_count + 1
            /\ monitor' = [pc |-> "recv", counter |-> 0, worker |-> 0]
            /\ UNCHANGED <<threadsLock, count>>
    /\ UNCHANGED <<panic_count, notify, worker_idle_queue, task_queue, workers,
                   handles, caller, nextTask, started, rejected, lastExec, closeSent>>
    /\ UNCHANGED nonPoolVars

\* Clone for ThreadPool, by the user
PoolClone ==
    /\ handles > 0
    /\ handles < MaxHandles
    /\ caller.pc = "ready"
    /\ handles' = handles + 1
    /\ count' = count + 1
    /\ UNCHANGED <<active_count, panic_count, threads, threadsLock, notify,
                   worker_idle_queue, task_queue, workers, monitor, caller,
                   nextTask, started, rejected, lastExec, closeSent>>
    /\ UNCHANGED nonPoolVars

\* Drop for ThreadPool, of a handle the user holds
PoolDrop ==
    /\ handles > 0
    /\ caller.pc = "ready"
    /\ handles' = handles - 1
    /\ count' = FetchSub(count)
    /\ IF count = 0
       THEN \* self.threads.write().unwrap(), Close to every worker and the monitor
            /\ threadsLock.writer = "none"
            /\ workers' = DropSends(count, workers)
            /\ notify' = Append(notify, Notify("Close", 0))
            /\ closeSent' = TRUE
       ELSE UNCHANGED <<workers, notify, closeSent>>
    /\ UNCHANGED <<active_count, panic_count, threads, threadsLock,
                   worker_idle_queue, task_queue, monitor, caller, nextTask,
                   started, rejected, lastExec>>
    /\ UNCHANGED nonPoolVars

PoolNext ==
    \/ ExecutePop
    \/ ExecutePush
    \/ \E w \in 1..MaxWorkers : WorkerRecv(w)
    \/ \E w \in 1..MaxWorkers : WorkerFinish(w)
    \/ \E w \in 1..MaxWorkers : WorkerPanic(w)
    \/ MonitorRecv
    \/ MonitorInsert
    \/ PoolClone
    \/ PoolDrop


(***************************************************************************)
(* One server connection: handle_connection, exec_stream, loop_exec and    *)
(* check_keepalive                                                         *)
(***************************************************************************)
\* what the peer may send: a request that keeps the connection, a request whose
\* close flag parses true, and a request line answered with 400, 405 or 505
Kinds == {"keep", "close", "malformed"}

NoRequest == [id |-> 0, kind |-> "none"]

\* a clock value that stands for "not yet"
NoTime == -1

\* the state when the pool's worker enters handle_connection
ConnInit ==
    /\ connPc = "first_read"
    /\ cur = NoRequest
    /\ keepalive = KeepAlive
    /\ inbox = <<>>
    /\ sentReqs = 0
    /\ peerClosed = FALSE
    /\ sockShut = FALSE
    /\ wdPc = "none"
    /\ expect_time = 0
    /\ channel = <<>>
    /\ exchanges = <<>>
    /\ now = 0
    /\ wdTimedOut = FALSE
    /\ lastUpdate = NoTime
    /\ responses = <<>>
    /\ shutInfo = [at |-> NoTime, lastUpdate |-> NoTime]

\* exec_stream's result (close, shutdown) for a request that was read
ExecStreamClose(req) == req.kind \in {"close", "malformed"}

\* the peer writes a request
PeerSend(kind) ==
    /\ sentReqs < MaxReqs
    /\ ~peerClosed
    /\ ~sockShut
    /\ connPc # "returned"
    /\ sentReqs' = sentReqs + 1
    /\ inbox' = Append(inbox, [id |-> sentReqs + 1, kind |-> kind])
    /\ UNCHANGED <<connPc, cur, keepalive, peerClosed, sockShut, wdPc, expect_time,
                   channel, exchanges, responses, now, wdTimedOut, lastUpdate, shutInfo>>
    /\ UNCHANGED nonConnVars

\* the peer closes its end
PeerClose ==
    /\ ~peerClosed
    /\ connPc # "returned"
    /\ peerClosed' = TRUE
    /\ UNCHANGED <<connPc, cur, keepalive, inbox, sentReqs, sockShut, wdPc,
                   expect_time, channel, exchanges, responses, now, wdTimedOut, lastUpdate,
                   shutInfo>>
    /\ UNCHANGED nonConnVars

\* the clock advances
Tick ==
    /\ now < MaxTime
    /\ connPc # "returned"
    /\ now' = now + 1
    /\ UNCHANGED <<connPc, cur, keepalive, inbox, sentReqs, peerClosed, sockShut,
                   wdPc, expect_time, channel, exchanges, responses, wdTimedOut, lastUpdate,
                   shutInfo>>
    /\ UNCHANGED nonConnVars

\* a slip of loop_exec: the next request is read while the exchange before it
\* is still under way
ExecStreamReadEarly ==
    /\ connPc \in {"first_read", "loop_read", "first_exec", "loop_exec"}
    /\ \/ /\ inbox # <<>>
          /\ cur' = Head(inbox)
          /\ inbox' = Tail(inbox)
          /\ exchanges' = Append(exchanges, Head(inbox))
          /\ connPc' = IF connPc \in {"first_read", "first_exec"} THEN "first_exec"
                        ELSE "loop_exec"
          /\ UNCHANGED <<channel, responses>>
       \/ /\ connPc \in {"first_read", "loop_read"}
          /\ \/ inbox = <<>> /\ peerClosed
             \/ sockShut
          /\ connPc' = "returned"
          /\ channel' = IF connPc = "loop_read" THEN Append(channel, "Break")
                        ELSE channel
          /\ UNCHANGED <<cur, inbox, exchanges, responses>>
    /\ UNCHANGED <<keepalive, sentReqs, peerClosed, sockShut, wdPc, expect_time,
                   now, wdTimedOut, lastUpdate, shutInfo>>
    /\ UNCHANGED nonConnVars

\* Request::parse: self.stream.read(&mut buffer) returns.  With bytes it goes on to
\* parse them; with 0 bytes it fails with "tcp stream had no data!", exec_stream
\* answers (true, true), and handle_connection returns at once while loop_exec
\* sends Check::Break and returns.  A read blocks while nothing was sent and the
\* socket is open; after a shutdown, bytes already queued are handed out or
\* dropped, as the platform decides.
ExecStreamRead ==
    /\ connPc \in {"first_read", "loop_read"}
    /\ \/ /\ inbox # <<>>
          /\ cur' = Head(inbox)
          /\ inbox' = Tail(inbox)
          /\ exchanges' = Append(exchanges, Head(inbox))
          /\ connPc' = IF connPc = "first_read" THEN "first_exec" ELSE "loop_exec"
          /\ UNCHANGED <<channel, responses>>
       \/ /\ \/ inbox = <<>> /\ peerClosed
             \/ sockShut
          /\ connPc' = "returned"
          /\ channel' = IF connPc = "loop_read" THEN Append(channel, "Break")
                        ELSE channel
          /\ UNCHANGED <<cur, inbox, exchanges, responses>>
    /\ UNCHANGED <<keepalive, sentReqs, peerClosed, sockShut, wdPc, expect_time,
                   now, wdTimedOut, lastUpdate, shutInfo>>
    /\ UNCHANGED nonConnVars

\* exec_stream, after the read: the rest of Request::parse, the extension chain,
\* the handler and the response (or the diagnostic of an interrupt), and what its
\* caller does with the result.  handle_connection: if close then keepalive = 0,
\* then loop_exec spawns check_keepalive.  loop_exec: let (_, shutdown) = ...;
\* channel.send(Check::Update).
ExecStreamDone ==
    /\ connPc \in {"first_exec", "loop_exec"}
    /\ cur' = NoRequest
    /\ responses' = Append(responses, cur.id)
    /\ connPc' = "loop_read"
    /\ IF connPc = "first_exec"
       THEN /\ keepalive' = IF ExecStreamClose(cur) THEN 0 ELSE keepalive
            /\ wdPc' = "spawned"
            /\ UNCHANGED <<channel, lastUpdate>>
       ELSE /\ channel' = Append(channel, "Update")
            /\ lastUpdate' = now
            /\ UNCHANGED <<keepalive, wdPc>>
    /\ UNCHANGED <<inbox, sentReqs, peerClosed, sockShut, expect_time, exchanges,
                   now, wdTimedOut, shutInfo>>
    /\ UNCHANGED nonConnVars

\* check_keepalive, before its loop: expect_time = Time::now() + keepalive
CheckKeepaliveStart ==
    /\ wdPc = "spawned"
    /\ expect_time' = now + keepalive
    /\ wdPc' = "running"
    /\ UNCHANGED <<connPc, cur, keepalive, inbox, sentReqs, peerClosed, sockShut,
                   channel, exchanges, responses, now, wdTimedOut, lastUpdate, shutInfo>>
    /\ UNCHANGED nonConnVars

\* a slip of check_keepalive: on the deadline it leaves without the shutdown
CheckKeepaliveNoShutdown ==
    /\ wdPc = "running"
    /\ IF expect_time <= now
       THEN /\ wdPc' = "done"
            /\ wdTimedOut' = TRUE
            /\ UNCHANGED <<sockShut, expect_time, channel, shutInfo>>
       ELSE /\ channel # <<>>
            /\ channel' = Tail(channel)
            /\ IF Head(channel) = "Update"
               THEN /\ expect_time' = now + keepalive
                    /\ UNCHANGED <<wdPc, sockShut, shutInfo>>
               ELSE /\ wdPc' = "done"
                    /\ sockShut' = TRUE
                    /\ shutInfo' = [at |-> now, lastUpdate |-> lastUpdate]
                    /\ UNCHANGED expect_time
            /\ UNCHANGED wdTimedOut
    /\ UNCHANGED <<connPc, cur, keepalive, inbox, sentReqs, peerClosed, exchanges, responses, now,
                   lastUpdate>>
    /\ UNCHANGED nonConnVars

\* check_keepalive, one turn of its loop that changes something: the deadline has
\* passed (break), or channel.try_recv() yields Update (expect_time = now +
\* keepalive) or Break (break); after the loop, tcp_stream.shutdown(Both)
CheckKeepaliveStep ==
    /\ wdPc = "running"
    /\ IF expect_time <= now
       THEN /\ wdPc' = "done"
            /\ sockShut' = TRUE
            /\ wdTimedOut' = TRUE
            /\ shutInfo' = [at |-> now, lastUpdate |-> lastUpdate]
            /\ UNCHANGED <<expect_time, channel>>
       ELSE /\ channel # <<>>
            /\ channel' = Tail(channel)
            /\ IF Head(channel) = "Update"
               THEN /\ expect_time' = now + keepalive
                    /\ UNCHANGED <<wdPc, sockShut, shutInfo>>
               ELSE /\ wdPc' = "done"
                    /\ sockShut' = TRUE
                    /\ shutInfo' = [at |-> now, lastUpdate |-> lastUpdate]
                    /\ UNCHANGED expect_time
            /\ UNCHANGED wdTimedOut
    /\ UNCHANGED <<connPc, cur, keepalive, inbox, sentReqs, peerClosed, exchanges, responses, now,
                   lastUpdate>>
    /\ UNCHANGED nonConnVars

ConnNext ==
    \/ \E kind \in Kinds : PeerSend(kind)
    \/ PeerClose
    \/ Tick
    \/ ExecStreamRead
    \/ ExecStreamDone
    \/ CheckKeepaliveStart
    \/ CheckKeepaliveStep

(***************************************************************************)
(* The rate limiter: Limit::new, Limit::run, Limit::recv                   *)
(***************************************************************************)
\* Limit::new: count timestamps, a sleep of interval after each
LimitInit ==
    /\ times = [i \in 1..Count |-> (i - 1) * Interval]
    /\ tokens = 0
    /\ runPc = "loop"
    /\ time_now = 0
    /\ waiting = 0
    /\ arrived = 0
    /\ admissions = <<>>
    /\ clock = Count * Interval

\* the condition under which Limit::run lets a request pass
RunCondition(t) == t - times[1] > Section /\ t - times[Count] > Interval

\* times.remove(0); times.push(time_now)
Rotate(ts, t) == Append(Tail(ts), t)

\* Limit::run, one turn of its loop that passes the condition: self.channel.send()
\* and the rotation of times; the send blocks, the lock on times held, while the
\* channel holds count tokens
LimitRun ==
    /\ runPc = "loop"
    /\ RunCondition(clock)
    /\ IF tokens < Count
       THEN /\ tokens' = tokens + 1
            /\ times' = Rotate(times, clock)
            /\ UNCHANGED <<runPc, time_now>>
       ELSE /\ runPc' = "send"
            /\ time_now' = clock
            /\ UNCHANGED <<tokens, times>>
    /\ UNCHANGED <<waiting, arrived, admissions, clock>>
    /\ UNCHANGED nonLimVars

\* Limit::run: the blocked send proceeds once the channel has room
LimitRunSent ==
    /\ runPc = "send"
    /\ tokens < Count
    /\ tokens' = tokens + 1
    /\ times' = Rotate(times, time_now)
    /\ runPc' = "loop"
    /\ UNCHANGED <<time_now, waiting, arrived, admissions, clock>>
    /\ UNCHANGED nonLimVars

\* Extend::check_limit: a request enters Limit::recv
LimitRecv ==
    /\ arrived < MaxWaiters
    /\ arrived' = arrived + 1
    /\ waiting' = waiting + 1
    /\ UNCHANGED <<times, tokens, runPc, time_now, admissions, clock>>
    /\ UNCHANGED nonLimVars

\* a slip of Limit::recv: a request that finds no token gives up
LimitAdmitOrGiveUp ==
    /\ waiting > 0
    /\ waiting' = waiting - 1
    /\ IF tokens > 0
       THEN /\ tokens' = tokens - 1
            /\ admissions' = Append(admissions, clock)
       ELSE UNCHANGED <<tokens, admissions>>
    /\ UNCHANGED <<times, runPc, time_now, arrived, clock>>
    /\ UNCHANGED nonLimVars

\* Limit::recv returns Ok: the request is admitted
LimitAdmit ==
    /\ waiting > 0
    /\ tokens > 0
    /\ tokens' = tokens - 1
    /\ waiting' = waiting - 1
    /\ admissions' = Append(admissions, clock)
    /\ UNCHANGED <<times, runPc, time_now, arrived, clock>>
    /\ UNCHANGED nonLimVars

\* the limiter's clock advances
LimitTick ==
    /\ clock < MaxClock
    /\ clock' = clock + 1
    /\ UNCHANGED <<times, tokens, runPc, time_now, waiting, arrived, admissions>>
    /\ UNCHANGED nonLimVars

\* a timestamp seen from a clock whose origin has moved on by one tick; what
\* lies further back than MaxClock is past every comparison of RunCondition
Earlier(t) == IF t > 0 THEN t - 1 ELSE 0

\* the limiter's clock advances without end: from MaxClock on, the origin of
\* the clock moves instead of the reading
LimitTickOn ==
    /\ IF clock < MaxClock
       THEN /\ clock' = clock + 1
            /\ UNCHANGED <<times, time_now>>
       ELSE /\ times' = [k \in 1..Count |-> Earlier(times[k])]
            /\ time_now' = Earlier(time_now)
            /\ UNCHANGED clock
    /\ UNCHANGED <<tokens, runPc, waiting, arrived, admissions>>
    /\ UNCHANGED nonLimVars

LimitNextOn ==
    \/ LimitRun
    \/ LimitRunSent
    \/ LimitRecv
    \/ LimitAdmit
    \/ LimitTickOn

LimitNext ==
    \/ LimitRun
    \/ LimitRunSent
    \/ LimitRecv
    \/ LimitAdmit
    \/ LimitTick

(***************************************************************************)
(* The client's connection pool: HttpClient::send, obtain,                 *)
(* create_stream_channel                                                   *)
(***************************************************************************)
Clients == 1..NumClients

Hosts == 1..NumHosts

\* no streamer
NoStreamer == 0

\* CLIENT_STREAM_MAP is empty when the process starts; no send is under way
ClientInit ==
    /\ cli = [c \in Clients |-> [pc |-> "idle", host |-> 0, streamer |-> NoStreamer]]
    /\ streamMap = << >>
    /\ mapReaders = {}
    /\ nextStreamer = 0

\* map_read.get(host) is Some
HasChannel(m, h) == h \in DOMAIN m

\* HttpClient::send is called for a host. With request.close the exchange runs
\* on a connection of its own and touches nothing shared; otherwise obtain is
\* entered
ClientSend(c, h, close) ==
    /\ cli[c].pc = "idle"
    /\ cli' = [cli EXCEPT ![c] = IF close THEN [pc |-> "idle", host |-> h, streamer |-> NoStreamer]
                                          ELSE [pc |-> "obtain", host |-> h, streamer |-> NoStreamer]]
    /\ UNCHANGED <<streamMap, mapReaders, nextStreamer>>
    /\ UNCHANGED nonCliVars

\* obtain: map_read = CLIENT_STREAM_MAP.read(), then the match on
\* map_read.get(host). Some: the head of the channel, or a new streamer when
\* try_recv fails, is returned and map_read is released. None: obtain goes on
\* to create_stream_channel, map_read still alive
ClientObtain(c) ==
    /\ cli[c].pc = "obtain"
    /\ IF HasChannel(streamMap, cli[c].host)
       THEN IF streamMap[cli[c].host] # <<>>
            THEN /\ cli' = [cli EXCEPT ![c].pc = "exchange",
                                       ![c].streamer = Head(streamMap[cli[c].host])]
                 /\ streamMap' = [streamMap EXCEPT ![cli[c].host] = Tail(@)]
                 /\ UNCHANGED <<mapReaders, nextStreamer>>
            ELSE /\ cli' = [cli EXCEPT ![c].pc = "exchange",
                                       ![c].streamer = nextStreamer + 1]
                 /\ nextStreamer' = nextStreamer + 1
                 /\ UNCHANGED <<streamMap, mapReaders>>
       ELSE /\ cli' = [cli EXCEPT ![c].pc = "create"]
            /\ mapReaders' = mapReaders \cup {c}
            /\ UNCHANGED <<streamMap, nextStreamer>>
    /\ UNCHANGED nonCliVars

\* obtain's None arm: create_stream_channel takes CLIENT_STREAM_MAP.write().
\* A thread that holds a read guard of the same RwLock either blocks for ever
\* or panics, as the platform's lock decides; the panic unwinds and drops
\* map_read. Without a guard of its own the writer waits for the readers, then
\* inserts the channel, and obtain opens the connection and returns
\* TcpStreamer::from
ClientCreate(c) ==
    /\ cli[c].pc = "create"
    /\ IF c \in mapReaders
       THEN \/ /\ cli' = [cli EXCEPT ![c].pc = "deadlock"]
               /\ UNCHANGED <<streamMap, mapReaders, nextStreamer>>
            \/ /\ cli' = [cli EXCEPT ![c].pc = "panicked"]
               /\ mapReaders' = mapReaders \ {c}
               /\ UNCHANGED <<streamMap, nextStreamer>>
       ELSE /\ mapReaders = {}
            /\ streamMap' = IF HasChannel(streamMap, cli[c].host)
                            THEN streamMap
                            ELSE (cli[c].host :> <<>>) @@ streamMap
            /\ cli' = [cli EXCEPT ![c].pc = "exchange", ![c].streamer = nextStreamer + 1]
            /\ nextStreamer' = nextStreamer + 1
            /\ UNCHANGED mapReaders
    /\ UNCHANGED nonCliVars

ClientNext ==
    \/ \E c \in Clients, h \in Hosts, close \in BOOLEAN : ClientSend(c, h, close)
    \/ \E c \in Clients : ClientObtain(c)
    \/ \E c \in Clients : ClientCreate(c)

(***************************************************************************)
(* One host's streamer channel: obtain's Some arm and the release in       *)
(* HttpClient::send, from the state create_stream_channel is written to    *)
(* leave                                                                   *)
(***************************************************************************)
\* no thread
NoClient == 0

\* the host's channel as create_stream_channel inserts it: empty
ReuseInit ==
    /\ reuseChan = <<>>
    /\ reusePc = [c \in Clients |-> "idle"]
    /\ reuseHeld = [c \in Clients |-> NoStreamer]
    /\ reuseWriter = NoClient
    /\ reuseNext = 0

\* obtain, Some arm: channel.read().unwrap().try_recv() hands out the head of
\* the channel; when the channel is empty a connection is opened and
\* TcpStreamer::from is returned
ReuseObtain(c) ==
    /\ reusePc[c] = "idle"
    /\ reuseWriter = NoClient
    /\ IF reuseChan # <<>>
       THEN /\ reuseHeld' = [reuseHeld EXCEPT ![c] = Head(reuseChan)]
            /\ reuseChan' = Tail(reuseChan)
            /\ UNCHANGED reuseNext
       ELSE /\ reuseNext < MaxStreamers
            /\ reuseHeld' = [reuseHeld EXCEPT ![c] = reuseNext + 1]
            /\ reuseNext' = reuseNext + 1
            /\ UNCHANGED reuseChan
    /\ reusePc' = [reusePc EXCEPT ![c] = "exchange"]
    /\ UNCHANGED reuseWriter
    /\ UNCHANGED nonReuseVars

\* HttpClient::send after Responser::from. response.close: Check::Break goes to
\* the streamer's watchdog and the streamer is dropped. Otherwise
\* ...get(host).unwrap().write().unwrap().send(tcp_streamer): Channel::send is
\* crossbeam's blocking send, so on a full channel the caller waits, the write
\* guard of the channel's RwLock in its hands; obtain's channel.read() cannot
\* pass that guard, so nothing is ever received and the wait does not end
ReuseRelease(c, close) ==
    /\ reusePc[c] = "exchange"
    /\ IF close
       THEN /\ reusePc' = [reusePc EXCEPT ![c] = "idle"]
            /\ UNCHANGED <<reuseChan, reuseWriter>>
       ELSE /\ reuseWriter = NoClient
            /\ IF Len(reuseChan) < StreamCap
               THEN /\ reuseChan' = Append(reuseChan, reuseHeld[c])
                    /\ reusePc' = [reusePc EXCEPT ![c] = "idle"]
                    /\ UNCHANGED reuseWriter
               ELSE /\ reusePc' = [reusePc EXCEPT ![c] = "blocked"]
                    /\ reuseWriter' = c
                    /\ UNCHANGED reuseChan
    /\ reuseHeld' = [reuseHeld EXCEPT ![c] = IF reusePc'[c] = "idle" THEN NoStreamer ELSE @]
    /\ UNCHANGED reuseNext
    /\ UNCHANGED nonReuseVars

ReuseNext ==
    \/ \E c \in Clients : ReuseObtain(c)
    \/ \E c \in Clients, close \in BOOLEAN : ReuseRelease(c, close)

(***************************************************************************)
(* The route tree of one method: Node::add, add_fn, add_split, fetch,      *)
(* fetch_fn, fetch_split, and exec_stream's use of the node                *)
(***************************************************************************)
\* labels of literal segments
Literals == {"a", "b"}

\* pattern segments that start with ":" and the name that follows the ":"
WildName == (":x" :> "x") @@ (":y" :> "y")

\* pattern_piece.starts_with(":")
IsWild(seg) == seg \in DOMAIN WildName

Segments == Literals \cup DOMAIN WildName

\* the patterns and the request paths, split at "/"
Patterns == UNION {[1..n -> Segments] : n \in 1..MaxDepth}

Paths == UNION {[1..n -> Literals] : n \in 1..MaxDepth}

\* Option::None of pattern and handler, of pattern_piece_value
NoPattern == 0

NoValue == ""

\* Node::new()
NewNode(piece, value) ==
    [pattern |-> NoPattern, pattern_piece |-> piece, pattern_piece_value |-> value,
     next_nodes |-> <<>>]

\* what add_split leaves when it panics with "already exist"
Panicked == <<>>

\* fetch's None and Some((node, fields))
FetchNone == [found |-> FALSE, node |-> 0, fields |-> {}]

FetchSome(n, fields) == [found |-> TRUE, node |-> n, fields |-> fields]

\* HashMap::insert
MapInsert(fields, k, v) == {kv \in fields : kv[1] # k} \cup {<<k, v>>}

NoFetch == [path |-> <<>>, found |-> FALSE, node |-> 0, fields |-> {}, outcome |-> "none"]

RouteInit ==
    /\ nodes = <<NewNode("", NoValue)>>
    /\ routes = <<>>
    /\ fetched = NoFetch

RECURSIVE AddFn(_, _, _, _, _)
\* add_split: at the end of the pattern the node takes pattern and handler, or
\* the registration panics; otherwise add_fn goes on. index counts the segments
\* already placed
AddSplit(ns, n, pattern_split, index, pid) ==
    IF Len(pattern_split) = index
    THEN IF ns[n].pattern # NoPattern THEN Panicked
         ELSE [ns EXCEPT ![n].pattern = pid]
    ELSE AddFn(ns, n, pattern_split, index, pid)

\* a slip of add_fn: a child is created without a look at the children
AddFnAlwaysCreate(ns, n, pattern_split, index, pid) ==
    LET raw == pattern_split[index + 1]
        pattern_piece == IF IsWild(raw) THEN "?" ELSE raw
        pattern_piece_value == IF IsWild(raw) THEN WildName[raw] ELSE NoValue
        id == Len(ns) + 1
        created == Append([ns EXCEPT ![n].next_nodes = Append(@, id)],
                          NewNode(pattern_piece, pattern_piece_value))
    IN  AddSplit(created, id, pattern_split, index + 1, pid)

\* add_fn: the first child with the same pattern_piece is reused, else
\* create_next_node appends a child
AddFn(ns, n, pattern_split, index, pid) ==
    LET raw == pattern_split[index + 1]
        pattern_piece == IF IsWild(raw) THEN "?" ELSE raw
        pattern_piece_value == IF IsWild(raw) THEN WildName[raw] ELSE NoValue
        kids == ns[n].next_nodes
        same == {k \in 1..Len(kids) : ns[kids[k]].pattern_piece = pattern_piece}
        first == CHOOSE k \in same : \A j \in same : k <= j
        id == Len(ns) + 1
        created == Append([ns EXCEPT ![n].next_nodes = Append(@, id)],
                          NewNode(pattern_piece, pattern_piece_value))
    IN  IF same # {}
        THEN AddSplit(ns, kids[first], pattern_split, index + 1, pid)
        ELSE AddSplit(created, id, pattern_split, index + 1, pid)

RECURSIVE FetchNext(_, _, _, _)
\* fetch_fn: the children are tried in the order of next_nodes
FetchFn(ns, n, pattern_split, index) ==
    FetchNext(ns, ns[n].next_nodes, pattern_split, index)

\* fetch_split: (is_self, src)
FetchSplit(ns, n, pattern_split, index) ==
    IF Len(pattern_split) = index
    THEN [is_self |-> TRUE, src |-> FetchNone]
    ELSE [is_self |-> FALSE, src |-> FetchFn(ns, n, pattern_split, index)]

\* the body of fetch_fn's for loop over the children that are left
FetchNext(ns, kids, pattern_split, index) ==
    IF kids = <<>> THEN FetchNone
    ELSE LET next_node == Head(kids)
             pattern_piece == pattern_split[index + 1]
             split == FetchSplit(ns, next_node, pattern_split, index + 1)
             value == ns[next_node].pattern_piece_value
         IN  IF ns[next_node].pattern_piece = pattern_piece
             THEN IF split.is_self THEN FetchSome(next_node, {})
                  ELSE IF split.src.found THEN split.src
                  ELSE FetchNext(ns, Tail(kids), pattern_split, index)
             ELSE IF ns[next_node].pattern_piece = "?"
             THEN IF split.is_self
                  THEN FetchSome(next_node, {<<value, pattern_piece>>})
                  ELSE IF split.src.found
                  THEN FetchSome(split.src.node,
                                 MapInsert(split.src.fields, value, pattern_piece))
                  ELSE FetchNext(ns, Tail(kids), pattern_split, index)
             ELSE FetchNext(ns, Tail(kids), pattern_split, index)

\* Request::parse and exec_stream on fetch's result: None is answered 404;
\* Some runs node.handler(), which is self.handler.unwrap()
Dispatch(ns, res) ==
    IF ~res.found THEN "404"
    ELSE IF ns[res.node].pattern = NoPattern THEN "panic"
    ELSE "handled"

\* Root::add: a pattern is registered; its handler is known by its place in
\* routes. A registration that panics ends the setup and leaves no server
RouteAdd(pattern) ==
    /\ Len(routes) < MaxRoutes
    /\ AddFn(nodes, 1, pattern, 0, Len(routes) + 1) # Panicked
    /\ nodes' = AddFn(nodes, 1, pattern, 0, Len(routes) + 1)
    /\ routes' = Append(routes, pattern)
    /\ fetched' = NoFetch
    /\ UNCHANGED nonRouteVars

\* Root::fetch for a request path, and the dispatch
RouteFetch(path) ==
    /\ LET res == FetchFn(nodes, 1, path, 0)
       IN  fetched' = [path |-> path, found |-> res.found, node |-> res.node,
                       fields |-> res.fields, outcome |-> Dispatch(nodes, res)]
    /\ UNCHANGED <<nodes, routes>>
    /\ UNCHANGED nonRouteVars

RouteNext ==
    \/ \E pattern \in Patterns : RouteAdd(pattern)
    \/ \E path \in Paths : RouteFetch(path)

(***************************************************************************)
(* One exchange: exec_stream's Ok arm, Extend::exec, check_filter, the     *)
(* handler, and Context::response                                          *)
(***************************************************************************)
\* the filter chains of a route: what matters of a filter is how often it calls
\* context.response()
Chains == UNION {[1..n -> 0..MaxCalls] : n \in 0..MaxFilters}

\* before the first exchange
CtxInit ==
    /\ filters = <<>>
    /\ handlerCalls = 0
    /\ exPc = "idle"
    /\ filterIndex = 0
    /\ executed = FALSE
    /\ filtersRun = <<>>
    /\ handlerRuns = 0
    /\ written = 0
    /\ limit = "none"
    /\ forbidden = FALSE
    /\ origin = <<>>

\* Context::response, called n times in a row: every call sets executed and
\* hands the response to Request::response, which writes it to the stream
Response(n, ctx) ==
    [executed |-> ctx.executed \/ n > 0, written |-> ctx.written + n]

\* Extend.limit: no limiter, or one whose recv returns Ok or Err
Limits == {"none", "ok", "closed"}

\* a slip of repo_wf: the group's filters are put before the route's
RepoWfGroupFirst(route, group) == group \o route

\* Router::repo_wf: the filters of the node are the filters of the route's
\* Extend with the filters of the group's Extend appended
RepoWf(route, group) == route \o group

\* the filters of an Extend, each named by the Extend and its place in it
Tags(from, chain) == [i \in 1..Len(chain) |-> <<from, i>>]

\* exec_stream, Ok arm: Context::new (executed false) for a request whose node
\* was registered with the route's and the group's filters, the given limiter
\* and handler; Extend::exec begins. Every exchange has a Context of its own
ExchangeBegin(route, group, calls, lim) ==
    /\ exPc = "idle"
    /\ Len(route) + Len(group) <= MaxFilters
    /\ filters' = RepoWf(route, group)
    /\ origin' = RepoWf(Tags("route", route), Tags("group", group))
    /\ handlerCalls' = calls
    /\ limit' = lim
    /\ forbidden' = FALSE
    /\ exPc' = "limit"
    /\ filterIndex' = 0
    /\ executed' = FALSE
    /\ filtersRun' = <<>>
    /\ handlerRuns' = 0
    /\ written' = 0
    /\ UNCHANGED nonCtxVars

\* a slip of check_limit: a failed recv is taken for an admission
CheckLimitIgnoresFailure ==
    /\ exPc = "limit"
    /\ exPc' = "filters"
    /\ UNCHANGED <<forbidden, executed, written>>
    /\ UNCHANGED <<filters, origin, handlerCalls, limit, filterIndex, filtersRun, handlerRuns>>
    /\ UNCHANGED nonCtxVars

\* Extend::exec, check_limit: without a limiter, or when its recv returns Ok,
\* go on to check_filter; when recv fails set status 403, call
\* context.response() and skip check_filter
CheckLimit ==
    /\ exPc = "limit"
    /\ IF limit = "closed"
       THEN /\ forbidden' = TRUE
            /\ executed' = Response(1, [executed |-> executed, written |-> written]).executed
            /\ written' = Response(1, [executed |-> executed, written |-> written]).written
            /\ exPc' = "handler"
       ELSE /\ exPc' = "filters"
            /\ UNCHANGED <<forbidden, executed, written>>
    /\ UNCHANGED <<filters, origin, handlerCalls, limit, filterIndex, filtersRun, handlerRuns>>
    /\ UNCHANGED nonCtxVars

\* a slip of check_filter: the loop does not look at context.executed
CheckFilterNoBreak ==
    /\ exPc = "filters"
    /\ IF filterIndex = Len(filters)
       THEN /\ exPc' = "handler"
            /\ UNCHANGED <<filterIndex, executed, filtersRun, written>>
       ELSE /\ filterIndex' = filterIndex + 1
            /\ filtersRun' = Append(filtersRun, filterIndex + 1)
            /\ executed' = Response(filters[filterIndex + 1],
                                    [executed |-> executed, written |-> written]).executed
            /\ written' = Response(filters[filterIndex + 1],
                                   [executed |-> executed, written |-> written]).written
            /\ UNCHANGED exPc
    /\ UNCHANGED <<filters, origin, handlerCalls, handlerRuns, limit, forbidden>>
    /\ UNCHANGED nonCtxVars

\* check_filter, one turn of its loop: break when context.executed, else run
\* the next filter; the loop ends after the last filter
CheckFilter ==
    /\ exPc = "filters"
    /\ IF executed \/ filterIndex = Len(filters)
       THEN /\ exPc' = "handler"
            /\ UNCHANGED <<filterIndex, executed, filtersRun, written>>
       ELSE /\ filterIndex' = filterIndex + 1
            /\ filtersRun' = Append(filtersRun, filterIndex + 1)
            /\ executed' = Response(filters[filterIndex + 1],
                                    [executed |-> executed, written |-> written]).executed
            /\ written' = Response(filters[filterIndex + 1],
                                   [executed |-> executed, written |-> written]).written
            /\ UNCHANGED exPc
    /\ UNCHANGED <<filters, origin, handlerCalls, handlerRuns, limit, forbidden>>
    /\ UNCHANGED nonCtxVars

\* exec_stream after extend.exec: if !context.executed { node.handler()(context) }
InvokeHandler ==
    /\ exPc = "handler"
    /\ exPc' = "done"
    /\ IF ~executed
       THEN /\ handlerRuns' = handlerRuns + 1
            /\ executed' = Response(handlerCalls,
                                    [executed |-> executed, written |-> written]).executed
            /\ written' = Response(handlerCalls,
                                   [executed |-> executed, written |-> written]).written
       ELSE UNCHANGED <<handlerRuns, executed, written>>
    /\ UNCHANGED <<filters, origin, handlerCalls, filterIndex, filtersRun, limit, forbidden>>
    /\ UNCHANGED nonCtxVars

CtxNext ==
    \/ /\ exPc = "idle"
       /\ \E route \in Chains, group \in Chains, calls \in 0..MaxCalls, lim \in Limits :
              ExchangeBegin(route, group, calls, lim)
    \/ CheckLimit
    \/ CheckFilter
    \/ InvokeHandler

(***************************************************************************)
(* The request body and its form (http/requester.rs, http/body.rs): the    *)
(* handler of one exchange calls form, multipart_form, body and            *)
(* Context::response in any order.  A multipart body is a sequence of      *)
(* lines, a urlencoded body a sequence of bytes.                           *)
(***************************************************************************)
\* the lines of a multipart body: the boundary line "--B", the closing line
\* "--B--", a Content-Disposition line with a name, one with a name and a
\* filename, and any other line
Lines == {"start", "end", "disp", "file", "text"}

\* the bytes of a urlencoded body
UrlBytes == {"k", "=", "&"}

\* content_type.inner(): absent, the two parsed kinds, any other
ContentTypes == {"none", "urlencoded", "multipart", "other"}

SeqsUpTo(S, n) == UNION {[1..k -> S] : k \in 0..n}

Bodies(ct) ==
    IF ct = "multipart" THEN SeqsUpTo(Lines, MaxBody) ELSE SeqsUpTo(UrlBytes, MaxBody)

\* the name and filename the Content-Disposition lines carry
FieldName == "n"

NoCall == [op |-> "none", ok |-> TRUE, parsed |-> FALSE, value |-> {}]

NoForm == [form |-> {}, files |-> {}]

\* Requester::from: nothing of the body is parsed
FormInit ==
    /\ content_type = "none"
    /\ reader = <<>>
    /\ body_parse = FALSE
    /\ form = {}
    /\ multipart_form = {}
    /\ fmPc = "idle"
    /\ wire = <<>>
    /\ interruptAt = 0
    /\ parses = 0
    /\ firstForm = NoForm
    /\ lastCall = NoCall
    /\ ops = 0

\* parse_body, ApplicationXWWWFormUrlEncoded: one byte of the loop
UrlByte(st, b) ==
    IF b = "="
    THEN IF st.step = 1
         THEN [st EXCEPT !.key = st.data, !.step = 2, !.data = <<>>]
         ELSE [st EXCEPT !.data = Append(st.data, b)]
    ELSE IF b = "&"
    THEN IF st.step = 1
         THEN [st EXCEPT !.data = Append(st.data, b)]
         ELSE [st EXCEPT !.form = MapInsert(st.form, st.key, st.data),
                         !.step = 1, !.data = <<>>]
    ELSE [st EXCEPT !.data = Append(st.data, b)]

RECURSIVE UrlLoop(_, _, _)
UrlLoop(body, i, st) ==
    IF i > Len(body) THEN st ELSE UrlLoop(body, i + 1, UrlByte(st, body[i]))

\* parse_body, ApplicationXWWWFormUrlEncoded: the loop and the pair after it
UrlEncoded(body, f) ==
    LET st == UrlLoop(body, 1, [step |-> 1, data |-> <<>>, key |-> <<>>, form |-> f])
    IN  IF st.key # <<>> \/ st.data # <<>>
        THEN MapInsert(st.form, st.key, st.data)
        ELSE st.form

\* a line shorter than the 14 bytes of "Content-Type: "
Short(l) == l = "text"

\* parse_body, MultipartFormData: the loop's turn at one '\n', by step
MultiLine(st, l) ==
    CASE st.step = 1 ->
           IF l = "start" THEN [st EXCEPT !.step = 2]
           ELSE IF l = "end" THEN [st EXCEPT !.out = "break"]
           ELSE [st EXCEPT !.out = "interrupt"]
      [] st.step = 2 ->
           IF l = "disp" THEN [st EXCEPT !.step = 3]
           ELSE IF l = "file" THEN [st EXCEPT !.step = 5]
           ELSE [st EXCEPT !.out = "interrupt"]
      [] st.step = 3 -> [st EXCEPT !.step = 4]
      [] st.step = 4 ->
           IF l \in {"start", "end"}
           THEN IF st.content = <<>>
                THEN [st EXCEPT !.out = "panic"]
                ELSE [st EXCEPT !.form = MapInsert(st.form, FieldName, st.content),
                                !.content = <<>>, !.step = 2]
           ELSE [st EXCEPT !.content = Append(st.content, l)]
      [] st.step = 5 ->
           IF Short(l) THEN [st EXCEPT !.out = "panic"] ELSE [st EXCEPT !.step = 6]
      [] st.step = 6 -> [st EXCEPT !.step = 7]
      [] OTHER ->
           IF l \in {"start", "end"}
           THEN IF st.content = <<>>
                THEN [st EXCEPT !.out = "panic"]
                ELSE [st EXCEPT !.files = MapInsert(st.files, FieldName, st.content),
                                !.content = <<>>, !.step = 2]
           ELSE [st EXCEPT !.content = Append(st.content, l)]

RECURSIVE MultiLoop(_, _, _)
MultiLoop(body, i, st) ==
    IF i > Len(body) \/ st.out # "run"
    THEN st
    ELSE MultiLoop(body, i + 1, MultiLine(st, body[i]))

\* parse_body after it has set body_parse and taken the body: what it leaves in
\* form and multipart_form, and whether it returned Ok, interrupted or panicked
ParseBody(ct, body, f, files) ==
    IF ct = "urlencoded"
    THEN [out |-> "ok", form |-> UrlEncoded(body, f), files |-> files]
    ELSE IF ct = "multipart"
    THEN LET st == MultiLoop(body, 1, [step |-> 1, content |-> <<>>, form |-> f,
                                       files |-> files, out |-> "run"])
         IN  [out |-> IF st.out \in {"run", "break"} THEN "ok" ELSE st.out,
              form |-> st.form, files |-> st.files]
    ELSE [out |-> "ok", form |-> f, files |-> files]

\* exec_stream hands a parsed request to the handler; every exchange has a
\* request of its own
FormBegin(ct, b) ==
    /\ fmPc = "idle"
    /\ content_type' = ct
    /\ reader' = b
    /\ body_parse' = FALSE
    /\ form' = {}
    /\ multipart_form' = {}
    /\ fmPc' = "handler"
    /\ wire' = <<>>
    /\ interruptAt' = 0
    /\ parses' = 0
    /\ firstForm' = NoForm
    /\ lastCall' = NoCall
    /\ ops' = 0
    /\ UNCHANGED nonFormVars

\* a slip of form and multipart_form: body_parse is not looked at
FormAccessReparse(op) ==
    /\ fmPc = "handler"
    /\ ops < MaxOps
    /\ LET r == ParseBody(content_type, reader, form, multipart_form)
       IN  /\ body_parse' = TRUE
           /\ reader' = <<>>
           /\ form' = r.form
           /\ multipart_form' = r.files
           /\ parses' = parses + 1
           /\ firstForm' = IF body_parse THEN firstForm
                           ELSE [form |-> r.form, files |-> r.files]
           /\ wire' = IF r.out = "interrupt" THEN Append(wire, "400") ELSE wire
           /\ interruptAt' = IF r.out = "interrupt" THEN Len(wire) + 1 ELSE interruptAt
           /\ fmPc' = IF r.out = "panic" THEN "dead" ELSE fmPc
           /\ lastCall' = [op |-> op, ok |-> r.out = "ok", parsed |-> TRUE,
                           value |-> IF op = "form" THEN r.form ELSE r.files]
    /\ ops' = ops + 1
    /\ UNCHANGED content_type
    /\ UNCHANGED nonFormVars

\* Requester::form / Requester::multipart_form: parse_body unless body_parse,
\* then a clone of the cached form; parse_body sets body_parse, takes the whole
\* body out of the reader, and on a malformed multipart line interrupts with 400
FormAccess(op) ==
    /\ fmPc = "handler"
    /\ ops < MaxOps
    /\ LET r == IF body_parse
                THEN [out |-> "ok", form |-> form, files |-> multipart_form]
                ELSE ParseBody(content_type, reader, form, multipart_form)
       IN  /\ body_parse' = TRUE
           /\ reader' = IF body_parse THEN reader ELSE <<>>
           /\ form' = r.form
           /\ multipart_form' = r.files
           /\ parses' = IF body_parse THEN parses ELSE parses + 1
           /\ firstForm' = IF body_parse THEN firstForm
                           ELSE [form |-> r.form, files |-> r.files]
           /\ wire' = IF r.out = "interrupt" THEN Append(wire, "400") ELSE wire
           /\ interruptAt' = IF r.out = "interrupt" THEN Len(wire) + 1 ELSE interruptAt
           /\ fmPc' = IF r.out = "panic" THEN "dead" ELSE fmPc
           /\ lastCall' = [op |-> op, ok |-> r.out = "ok", parsed |-> ~body_parse,
                           value |-> IF op = "form" THEN r.form ELSE r.files]
    /\ ops' = ops + 1
    /\ UNCHANGED content_type
    /\ UNCHANGED nonFormVars

\* Requester::body -> Body::body: the reader's bytes, which leave the reader
BodyAccess ==
    /\ fmPc = "handler"
    /\ ops < MaxOps
    /\ lastCall' = [op |-> "body", ok |-> TRUE, parsed |-> FALSE, value |-> reader]
    /\ reader' = <<>>
    /\ ops' = ops + 1
    /\ UNCHANGED <<content_type, body_parse, form, multipart_form, fmPc, wire,
                   interruptAt, parses, firstForm>>
    /\ UNCHANGED nonFormVars

\* Context::response called by the handler: Requester::response writes it
ContextResponse ==
    /\ fmPc = "handler"
    /\ ops < MaxOps
    /\ wire' = Append(wire, "response")
    /\ ops' = ops + 1
    /\ UNCHANGED <<content_type, reader, body_parse, form, multipart_form, fmPc,
                   interruptAt, parses, firstForm, lastCall>>
    /\ UNCHANGED nonFormVars

\* the handler returns to exec_stream
HandlerReturn ==
    /\ fmPc = "handler"
    /\ fmPc' = "done"
    /\ UNCHANGED <<content_type, reader, body_parse, form, multipart_form, wire,
                   interruptAt, parses, firstForm, lastCall, ops>>
    /\ UNCHANGED nonFormVars

FormNext ==
    \/ /\ fmPc = "idle"
       /\ \E ct \in ContentTypes : \E b \in Bodies(ct) : FormBegin(ct, b)
    \/ \E op \in {"form", "multipart_form"} : FormAccess(op)
    \/ BodyAccess
    \/ ContextResponse
    \/ HandlerReturn

(***************************************************************************)
(* Reading the body of a POST, PUT or PATCH request (http/requester.rs,     *)
(* fill_body).  The first read of Requester::parse returned the request     *)
(* line, the headers and the first bytes of the body; the rest of the body  *)
(* comes with later reads, in pieces of any size.                           *)
(***************************************************************************)
\* body bytes: a line break (CR or LF) and any other byte
BodyBytes == {"nl", "x"}

\* the values of Content-Length that fill_body accepts
ContentLens == -1 .. MaxLen

\* what the client sends after the headers for a Content-Length
SentBodies(n) ==
    IF n >= 0 THEN [1..n -> BodyBytes] ELSE SeqsUpTo(BodyBytes, MaxLen)

\* the number of leading CR and LF bytes of a sequence
RECURSIVE LeadingBreaks(_)
LeadingBreaks(s) ==
    IF s # <<>> /\ Head(s) = "nl" THEN 1 + LeadingBreaks(Tail(s)) ELSE 0

\* before a request is read
FillInit ==
    /\ fillPc = "idle"
    /\ content_len = 0
    /\ sent = <<>>
    /\ incoming = <<>>
    /\ bw = <<>>
    /\ fbLen = 0
    /\ fbCount = 0
    /\ fbSize = 0

\* fill_body up to its first reread: the first read left k body bytes in the
\* buffer (size = k).  The loop over iter drops leading CR and LF bytes and
\* takes the first other byte; a buffer that holds no such byte within size
\* makes it take a padding byte and compute 0 - 1 in usize, which panics in a
\* debug build and wraps in a release build, where the slice 0..size panics
\* unless Content-Length is 0
FillBody(n, body, k, build) ==
    /\ fillPc = "idle"
    /\ content_len' = n
    /\ sent' = body
    /\ incoming' = SubSeq(body, k + 1, Len(body))
    /\ LET j == LeadingBreaks(SubSeq(body, 1, k))
       IN  IF j = k
           THEN /\ fillPc' = IF n = 0 /\ build = "release" THEN "done" ELSE "panic"
                /\ bw' = <<>>
                /\ fbLen' = 0
                /\ fbCount' = 0
                /\ fbSize' = 0
           ELSE /\ bw' = SubSeq(body, j + 1, k)
                /\ fbSize' = k - j - 1
                /\ fbCount' = k - j - 1
                /\ fbLen' = IF n > 0 THEN n - 1 ELSE n
                /\ fillPc' = IF n > 0 THEN "loop" ELSE "read_to_end"
    /\ UNCHANGED nonFillVars

\* one turn of the loop of fill_body: break when count = len or size = 0 and
\* set the body; else reread_stream, which returns some of the bytes that
\* have come in, or 0 at the end of the stream
FillLoop(k) ==
    /\ fillPc = "loop"
    /\ IF fbCount = fbLen \/ fbSize = 0
       THEN /\ k = 0
            /\ fillPc' = "done"
            /\ UNCHANGED <<incoming, bw, fbCount, fbSize>>
       ELSE /\ IF incoming = <<>> THEN k = 0 ELSE k \in 1..Len(incoming)
            /\ fbSize' = k
            /\ bw' = bw \o SubSeq(incoming, 1, k)
            /\ incoming' = SubSeq(incoming, k + 1, Len(incoming))
            /\ fbCount' = fbCount + k
            /\ UNCHANGED fillPc
    /\ UNCHANGED <<content_len, sent, fbLen>>
    /\ UNCHANGED nonFillVars

\* Content-Length -1: read_to_end returns all that comes until the peer closes
FillReadToEnd ==
    /\ fillPc = "read_to_end"
    /\ bw' = bw \o incoming
    /\ incoming' = <<>>
    /\ fillPc' = "done"
    /\ UNCHANGED <<content_len, sent, fbLen, fbCount, fbSize>>
    /\ UNCHANGED nonFillVars

\* the next request, read by a new Requester
FillReset ==
    /\ fillPc \in {"done", "panic"}
    /\ fillPc' = "idle"
    /\ content_len' = 0
    /\ sent' = <<>>
    /\ incoming' = <<>>
    /\ bw' = <<>>
    /\ fbLen' = 0
    /\ fbCount' = 0
    /\ fbSize' = 0
    /\ UNCHANGED nonFillVars

FillNext ==
    \/ /\ fillPc = "idle"
       /\ \E n \in ContentLens : \E body \in SentBodies(n) : \E k \in 0..Len(body) :
              \E build \in {"debug", "release"} : FillBody(n, body, k, build)
    \/ \E k \in 0..MaxLen : FillLoop(k)
    \/ FillReadToEnd
    \/ FillReset

(***************************************************************************)
(* Parsing a request (http/request.rs, Request::parse): the request line,  *)
(* the route lookup, the headers and the body length, in the order of the  *)
(* code.  A request line is its tokens, separated by single spaces and     *)
(* ended by CR.                                                            *)
(***************************************************************************)
\* first tokens: two methods, the empty token, and bytes that are no method
MethodTokens == {"GET", "POST", "", "FOO"}

\* second tokens: two absolute paths and one without a leading '/'
PathTokens == {"/a", "/b", "abc"}

\* third tokens: the three versions Version::from_bytes knows and another
VersionTokens == {"HTTP/1.0", "HTTP/1.1", "HTTP/2.0", "HTTP/9"}

\* request lines of one to four tokens
RequestLines ==
    {<<t1>> : t1 \in MethodTokens}
    \cup {<<t1, t2>> : t1 \in MethodTokens, t2 \in PathTokens}
    \cup {<<t1, t2, t3>> : t1 \in MethodTokens, t2 \in PathTokens, t3 \in VersionTokens}
    \cup {<<t1, t2, t3, "x">> :
              t1 \in MethodTokens, t2 \in PathTokens, t3 \in VersionTokens}

\* the Content-Length header: absent, an isize >= -1, or anything else
ContentLengths == {"none", "valid", "invalid"}

Requests == [line : RequestLines, host : BOOLEAN, content_length : ContentLengths]

\* the routes of the server: (method, path)
Registered == {<<"POST", "/a">>, <<"GET", "/b">>}

\* Method::from_bytes
MethodFromBytes(t) ==
    IF t = "" THEN [ok |-> TRUE, method |-> "GET"]
    ELSE IF t \in {"GET", "POST"} THEN [ok |-> TRUE, method |-> t]
    ELSE [ok |-> FALSE, method |-> ""]

\* Version::from_bytes
VersionFromBytes(t) == t \in {"HTTP/1.0", "HTTP/1.1", "HTTP/2.0"}

\* the path has the leading '/' that Node::fetch takes for granted
Absolute(p) == p \in {"/a", "/b"}

Outcome(result, status) == [result |-> result, status |-> status]

\* parse_request_line: Method::from_bytes at the first space, the location at
\* the second, 400 at a third; at CR Version::from_bytes, or 400 when fewer
\* than three tokens came
ParseRequestLine(line) ==
    IF Len(line) = 1 THEN Outcome("err", "400")
    ELSE IF ~MethodFromBytes(line[1]).ok THEN Outcome("err", "405")
    ELSE IF Len(line) = 2 THEN Outcome("err", "400")
    ELSE IF Len(line) > 3 THEN Outcome("err", "400")
    ELSE IF ~VersionFromBytes(line[3]) THEN Outcome("err", "505")
    ELSE Outcome("ok", "")

\* Root::fetch for the parsed line: Node::fetch indexes the pieces after the
\* first '/', which panics when there is none
Fetch(line) ==
    IF ~Absolute(line[2]) THEN Outcome("panic", "")
    ELSE IF <<MethodFromBytes(line[1]).method, line[2]>> \in Registered
    THEN Outcome("ok", "")
    ELSE Outcome("err", "404")

\* parse_others: HTTP/1.0 and HTTP/1.1 need a Host header, any other version
\* is not supported
ParseOthers(req) ==
    IF req.line[3] \in {"HTTP/1.0", "HTTP/1.1"}
    THEN IF req.host THEN Outcome("ok", "") ELSE Outcome("err", "417")
    ELSE Outcome("err", "505")

\* the body of POST, PUT and PATCH: its Content-Length must parse
ParseLength(req) ==
    IF MethodFromBytes(req.line[1]).method = "POST" /\ req.content_length = "invalid"
    THEN Outcome("err", "411")
    ELSE Outcome("ok", "")

\* a slip of Request::parse: the headers are looked at before the route
ParseHeadersFirst(req) ==
    IF ParseRequestLine(req.line).result # "ok" THEN ParseRequestLine(req.line)
    ELSE IF ~Absolute(req.line[2]) THEN Fetch(req.line)
    ELSE IF ParseOthers(req).result # "ok" THEN ParseOthers(req)
    ELSE IF Fetch(req.line).result # "ok" THEN Fetch(req.line)
    ELSE ParseLength(req)

\* Request::parse: the request line, the route, the headers, the body
Parse(req) ==
    IF ParseRequestLine(req.line).result # "ok" THEN ParseRequestLine(req.line)
    ELSE IF Fetch(req.line).result # "ok" THEN Fetch(req.line)
    ELSE IF ParseOthers(req).result # "ok" THEN ParseOthers(req)
    ELSE ParseLength(req)

NoReq == [line |-> <<>>, host |-> FALSE, content_length |-> "none"]

ParseInit ==
    /\ psPc = "read"
    /\ psReq = NoReq
    /\ psStatus = ""
    /\ psHandled = FALSE

\* exec_stream: Request::from reads and parses the request; every interrupt
\* has written its status when from returns
RequestFrom(req) ==
    /\ psPc = "read"
    /\ psReq' = req
    /\ psStatus' = Parse(req).status
    /\ psPc' = Parse(req).result
    /\ psHandled' = FALSE
    /\ UNCHANGED nonParseVars

\* exec_stream, Ok arm: extend.exec and the handler
ExecOk ==
    /\ psPc = "ok"
    /\ psHandled' = TRUE
    /\ psPc' = "done"
    /\ UNCHANGED <<psReq, psStatus>>
    /\ UNCHANGED nonParseVars

\* exec_stream, Err arm: nothing more is done for the request
ExecErr ==
    /\ psPc = "err"
    /\ psPc' = "done"
    /\ UNCHANGED <<psReq, psStatus, psHandled>>
    /\ UNCHANGED nonParseVars

\* loop_exec: the next request of the connection
NextRequest ==
    /\ psPc = "done"
    /\ psPc' = "read"
    /\ psReq' = NoReq
    /\ psStatus' = ""
    /\ psHandled' = FALSE
    /\ UNCHANGED nonParseVars

ParseNext ==
    \/ /\ psPc = "read"
       /\ \E req \in Requests : RequestFrom(req)
    \/ ExecOk
    \/ ExecErr
    \/ NextRequest

(***************************************************************************)
(* Header::check_close (http/header/header.rs).  A Header is a Values map   *)
(* from header names to values.                                             *)
(***************************************************************************)
\* header names that matter to check_close
HeaderKeys == {"Connection", "close", "keep-alive"}

\* header values
HeaderValues == {"close", "keep-alive", "x"}

\* the Headers over these names: at most one entry per name
Headers ==
    {h \in SUBSET (HeaderKeys \X HeaderValues) :
        \A a \in h, b \in h : a[1] = b[1] => a = b}

\* the versions a Version can be, with Version.major
Versions == {"HTTP/1.0", "HTTP/1.1", "HTTP/2.0"}

Major(v) == IF v = "HTTP/2.0" THEN 2 ELSE 1

\* Values::contain: the map has the key
Contain(h, k) == \E kv \in h : kv[1] = k

\* Values::del
Del(h, k) == {kv \in h : kv[1] # k}

CloseInit ==
    /\ ccHeader = {}
    /\ ccVersion = "HTTP/1.1"
    /\ ccRemove = FALSE
    /\ ccResult = "none"

\* check_close: what it returns and what it leaves of the header; del of an
\* absent Connection header is unwrapped, which panics
CheckClose(h, v, remove) ==
    IF Major(v) < 1 THEN [result |-> "true", header |-> h]
    ELSE IF v = "HTTP/1.0"
    THEN [result |-> IF Contain(h, "close") \/ ~Contain(h, "keep-alive")
                     THEN "true" ELSE "false",
          header |-> h]
    ELSE IF Contain(h, "close") /\ remove
    THEN IF Contain(h, "Connection")
         THEN [result |-> "true", header |-> Del(h, "Connection")]
         ELSE [result |-> "panic", header |-> h]
    ELSE [result |-> IF Contain(h, "close") THEN "true" ELSE "false", header |-> h]

\* a call of check_close on a parsed header
CallCheckClose(h, v, remove) ==
    /\ ccResult = "none"
    /\ ccVersion' = v
    /\ ccRemove' = remove
    /\ ccHeader' = h
    /\ ccResult' = CheckClose(h, v, remove).result
    /\ UNCHANGED nonCloseVars

\* the next message has a header of its own
CloseReset ==
    /\ ccResult # "none"
    /\ ccHeader' = {}
    /\ ccVersion' = "HTTP/1.1"
    /\ ccRemove' = FALSE
    /\ ccResult' = "none"
    /\ UNCHANGED nonCloseVars

CloseNext ==
    \/ /\ ccResult = "none"
       /\ \E h \in Headers, v \in Versions, remove \in BOOLEAN :
              CallCheckClose(h, v, remove)
    \/ CloseReset

(***************************************************************************)
(* The Root (server/node.rs): one tree per method, chosen by Root::add and *)
(* Root::fetch with a match on the method.                                  *)
(***************************************************************************)
Methods == {"OPTIONS", "GET", "POST", "PUT", "DELETE", "HEAD", "TRACE", "CONNECT",
            "PATCH", "LINK", "UNLINK", "PRI"}

\* the match of Root::add: the field a method's pattern is added to
AddField(method) ==
    CASE method = "OPTIONS" -> "root_option"
      [] method = "GET" -> "root_get"
      [] method = "POST" -> "root_post"
      [] method = "PUT" -> "root_put"
      [] method = "DELETE" -> "root_delete"
      [] method = "HEAD" -> "root_head"
      [] method = "TRACE" -> "root_trace"
      [] method = "CONNECT" -> "root_connect"
      [] method = "PATCH" -> "root_patch"
      [] method = "LINK" -> "root_link"
      [] method = "UNLINK" -> "root_unlink"
      [] method = "PRI" -> "root_pri"

\* the match of Root::fetch: the field a method's path is looked up in
FetchField(method) ==
    CASE method = "OPTIONS" -> "root_option"
      [] method = "GET" -> "root_get"
      [] method = "POST" -> "root_post"
      [] method = "PUT" -> "root_put"
      [] method = "DELETE" -> "root_delete"
      [] method = "HEAD" -> "root_head"
      [] method = "TRACE" -> "root_trace"
      [] method = "CONNECT" -> "root_connect"
      [] method = "PATCH" -> "root_patch"
      [] method = "LINK" -> "root_link"
      [] method = "UNLINK" -> "root_unlink"
      [] method = "PRI" -> "root_pri"

\* struct Root
RootFields == {"root_option", "root_get", "root_post", "root_put", "root_delete",
               "root_head", "root_trace", "root_connect", "root_patch", "root_link",
               "root_unlink", "root_pri"}

\* the patterns registered on the Root and the paths looked up in it
RootPatterns == {<<"a">>, <<"a", "b">>, <<":x">>}

RootPaths == {<<"a">>, <<"b">>}

NoRootFetch == [method |-> "", path |-> <<>>, found |-> FALSE]

\* Root::new
RootInit ==
    /\ roots = [f \in RootFields |-> <<NewNode("", NoValue)>>]
    /\ rtAdded = {}
    /\ rtPrev = [f \in RootFields |-> <<NewNode("", NoValue)>>]
    /\ rtLast = ""
    /\ rtFetched = NoRootFetch

\* Root::add; a registration that panics leaves no server
RootAdd(pattern, method) ==
    /\ Cardinality(rtAdded) < MaxAdds
    /\ AddFn(roots[AddField(method)], 1, pattern, 0, Cardinality(rtAdded) + 1) # Panicked
    /\ roots' = [roots EXCEPT ![AddField(method)] =
                     AddFn(@, 1, pattern, 0, Cardinality(rtAdded) + 1)]
    /\ rtAdded' = rtAdded \cup {<<method, pattern>>}
    /\ rtPrev' = roots
    /\ rtLast' = method
    /\ rtFetched' = NoRootFetch
    /\ UNCHANGED nonRootVars

\* Root::fetch
RootFetch(path, method) ==
    /\ rtFetched' = [method |-> method, path |-> path,
                     found |-> FetchFn(roots[FetchField(method)], 1, path, 0).found]
    /\ UNCHANGED <<roots, rtAdded, rtPrev, rtLast>>
    /\ UNCHANGED nonRootVars

RootNext ==
    \/ \E pattern \in RootPatterns, method \in Methods : RootAdd(pattern, method)
    \/ \E path \in RootPaths, method \in Methods : RootFetch(path, method)

(***************************************************************************)
(* AcceptEncoding::best (http/header/encode_type.rs).  A header value is    *)
(* the sequence of its pieces between commas; a piece written after         *)
(* ", " starts with a space.                                                *)
(***************************************************************************)
\* the pieces of an Accept-Encoding value
EncPieces == {"gzip", " gzip", "deflate", " deflate", "br", " br", "zlib", " zlib"}

\* the Accept-Encoding values; a header that is present has at least one
\* piece, so no piece at all stands for a request without the header
EncHeaders == SeqsUpTo(EncPieces, MaxLen)

\* str::trim on one piece
TrimPiece(p) ==
    CASE p = " gzip" -> "gzip"
      [] p = " deflate" -> "deflate"
      [] p = " br" -> "br"
      [] p = " zlib" -> "zlib"
      [] OTHER -> p

\* src.trim().split(","): only the start of the whole value is trimmed
TrimSplit(src) == [i \in 1..Len(src) |-> IF i = 1 THEN TrimPiece(src[i]) ELSE src[i]]

\* AcceptEncoding::from(&str): an exact match, anything else is None ("")
EncFrom(p) == IF p \in {"gzip", "deflate", "br", "zlib"} THEN p ELSE ""

\* the loop of best over the pieces from index i, res being the choice so far
RECURSIVE BestLoop(_, _, _)
BestLoop(split, i, res) ==
    IF i > Len(split) THEN res
    ELSE LET this == EncFrom(split[i]) IN
         IF this = "" THEN BestLoop(split, i + 1, res)
         ELSE IF this = "gzip" THEN "gzip"
         ELSE IF this = "deflate" THEN BestLoop(split, i + 1, "deflate")
         ELSE IF this = "zlib" /\ res # "deflate" THEN BestLoop(split, i + 1, "zlib")
         ELSE BestLoop(split, i + 1, res)

Best(src) == BestLoop(TrimSplit(src), 1, "None")

EncInit ==
    /\ aeHeader = <<>>
    /\ aeResult = "unset"

\* Header::get_accept_encoding on a parsed header
GetAcceptEncoding(h) ==
    /\ aeResult = "unset"
    /\ aeHeader' = h
    /\ aeResult' = IF h = <<>> THEN "None" ELSE Best(h)
    /\ UNCHANGED nonEncVars

\* the next request has a header of its own
EncReset ==
    /\ aeResult # "unset"
    /\ aeHeader' = <<>>
    /\ aeResult' = "unset"
    /\ UNCHANGED nonEncVars

EncNext ==
    \/ /\ aeResult = "unset"
       /\ \E h \in EncHeaders : GetAcceptEncoding(h)
    \/ EncReset

(***************************************************************************)
(* Method::from_bytes and Method::as_str (http/method.rs).  Bytes are a     *)
(* sequence of one-letter strings.                                          *)
(***************************************************************************)
\* the Inner enum
Inner == {"Options", "Get", "Post", "Put", "Delete", "Head", "Trace", "Connect",
          "Patch", "Link", "UnLink", "Pri"}

\* Method::as_str, as bytes
AsStr(method) ==
    CASE method = "Options" -> <<"O", "P", "T", "I", "O", "N", "S">>
      [] method = "Get" -> <<"G", "E", "T">>
      [] method = "Post" -> <<"P", "O", "S", "T">>
      [] method = "Put" -> <<"P", "U", "T">>
      [] method = "Delete" -> <<"D", "E", "L", "E", "T", "E">>
      [] method = "Head" -> <<"H", "E", "A", "D">>
      [] method = "Trace" -> <<"T", "R", "A", "C", "E">>
      [] method = "Connect" -> <<"C", "O", "N", "N", "E", "C", "T">>
      [] method = "Patch" -> <<"P", "A", "T", "C", "H">>
      [] method = "Link" -> <<"L", "I", "N", "K">>
      [] method = "UnLink" -> <<"U", "N", "L", "I", "N", "K">>
      [] method = "Pri" -> <<"P", "R", "I">>

\* the result of from_bytes
MtOk(method) == [ok |-> TRUE, method |-> method]

MtErr == [ok |-> FALSE, method |-> "none"]

MtPending == [ok |-> FALSE, method |-> "pending"]

\* a from_bytes whose three-byte arm has no PRI
FromBytesWithoutPri(src) ==
    CASE Len(src) = 0 -> MtOk("Get")
      [] Len(src) = 3 ->
            IF src = <<"G", "E", "T">> THEN MtOk("Get")
            ELSE IF src = <<"P", "U", "T">> THEN MtOk("Put")
            ELSE MtErr
      [] Len(src) = 4 ->
            IF src = <<"P", "O", "S", "T">> THEN MtOk("Post")
            ELSE IF src = <<"H", "E", "A", "D">> THEN MtOk("Head")
            ELSE IF src = <<"L", "I", "N", "K">> THEN MtOk("Link")
            ELSE MtErr
      [] Len(src) = 5 ->
            IF src = <<"P", "A", "T", "C", "H">> THEN MtOk("Patch")
            ELSE IF src = <<"T", "R", "A", "C", "E">> THEN MtOk("Trace")
            ELSE MtErr
      [] Len(src) = 6 ->
            IF src = <<"D", "E", "L", "E", "T", "E">> THEN MtOk("Delete")
            ELSE IF src = <<"U", "N", "L", "I", "N", "K">> THEN MtOk("UnLink")
            ELSE MtErr
      [] Len(src) = 7 ->
            IF src = <<"O", "P", "T", "I", "O", "N", "S">> THEN MtOk("Options")
            ELSE IF src = <<"C", "O", "N", "N", "E", "C", "T">> THEN MtOk("Connect")
            ELSE MtErr
      [] OTHER -> MtErr

\* Method::from_bytes: a match on the length, then on the bytes
FromBytes(src) ==
    CASE Len(src) = 0 -> MtOk("Get")
      [] Len(src) = 3 ->
            IF src = <<"G", "E", "T">> THEN MtOk("Get")
            ELSE IF src = <<"P", "U", "T">> THEN MtOk("Put")
            ELSE IF src = <<"P", "R", "I">> THEN MtOk("Pri")
            ELSE MtErr
      [] Len(src) = 4 ->
            IF src = <<"P", "O", "S", "T">> THEN MtOk("Post")
            ELSE IF src = <<"H", "E", "A", "D">> THEN MtOk("Head")
            ELSE IF src = <<"L", "I", "N", "K">> THEN MtOk("Link")
            ELSE MtErr
      [] Len(src) = 5 ->
            IF src = <<"P", "A", "T", "C", "H">> THEN MtOk("Patch")
            ELSE IF src = <<"T", "R", "A", "C", "E">> THEN MtOk("Trace")
            ELSE MtErr
      [] Len(src) = 6 ->
            IF src = <<"D", "E", "L", "E", "T", "E">> THEN MtOk("Delete")
            ELSE IF src = <<"U", "N", "L", "I", "N", "K">> THEN MtOk("UnLink")
            ELSE MtErr
      [] Len(src) = 7 ->
            IF src = <<"O", "P", "T", "I", "O", "N", "S">> THEN MtOk("Options")
            ELSE IF src = <<"C", "O", "N", "N", "E", "C", "T">> THEN MtOk("Connect")
            ELSE MtErr
      [] OTHER -> MtErr

\* bytes that are no method name: the prefixes of the names (the empty one
\* among them), the names with one byte replaced or in lower case, and the
\* names with a byte appended
OtherBytes ==
    ({SubSeq(AsStr(x), 1, n) : <<x, n>> \in
          {y \in Inner \X (0..7) : y[2] < Len(AsStr(y[1]))}}
     \cup {[AsStr(x) EXCEPT ![n] = b] : <<x, n, b>> \in
          {y \in Inner \X (1..7) \X {"x", "e", "t"} : y[2] <= Len(AsStr(y[1]))}}
     \cup {Append(AsStr(x), b) : <<x, b>> \in Inner \X {"S", " "}})
    \ {AsStr(x) : x \in Inner}

MethodInit ==
    /\ mtSrc = <<>>
    /\ mtOf = "none"
    /\ mtResult = MtPending

\* from_bytes on the as_str of a Method
RoundTrip(method) ==
    /\ mtResult = MtPending
    /\ mtSrc' = AsStr(method)
    /\ mtOf' = method
    /\ mtResult' = FromBytes(AsStr(method))
    /\ UNCHANGED nonMethodVars

\* from_bytes on the first token of a request line that is no method name
FromOtherBytes(src) ==
    /\ mtResult = MtPending
    /\ mtSrc' = src
    /\ mtOf' = "none"
    /\ mtResult' = FromBytes(src)
    /\ UNCHANGED nonMethodVars

\* the next request line
MethodReset ==
    /\ mtResult # MtPending
    /\ mtSrc' = <<>>
    /\ mtOf' = "none"
    /\ mtResult' = MtPending
    /\ UNCHANGED nonMethodVars

MethodNext ==
    \/ /\ mtResult = MtPending
       /\ \E method \in Inner : RoundTrip(method)
    \/ /\ mtResult = MtPending
       /\ \E src \in OtherBytes : FromOtherBytes(src)
    \/ MethodReset

(***************************************************************************)
(* Cookie::to_string and Cookie::read_set_cookies (http/cookie.rs).  An     *)
(* Option is a sequence of at most one element.  A Time is a number of half *)
(* seconds since the epoch; the text of a date carries whole seconds.  A    *)
(* Set-Cookie value is the sequence of its pieces between ";", trimmed, and *)
(* a piece is the sequence of its parts between "=".                        *)
(***************************************************************************)
\* Cookie::default
CookieDefault ==
    [name |-> "", value |-> "", path |-> <<>>, domain |-> <<>>, expires |-> <<>>,
     max_age |-> <<>>, secure |-> FALSE, httponly |-> FALSE, same_site |-> <<>>]

\* Option<T> over the values of S
Option(S) == {<<>>} \cup {<<x>> : x \in S}

\* the SameSite enum
SameSite == {"None", "Lax", "Strict"}

\* the cookies a CookieBuilder builds
Cookies ==
    [name : {"k"}, value : {"v", ""}, path : Option({"/"}), domain : Option({"d"}),
     expires : Option(0..MaxTicks), max_age : Option({-1, 0, 1}),
     secure : BOOLEAN, httponly : BOOLEAN, same_site : Option(SameSite)]

\* Time::format_string with "%a, %d %b %Y %H:%M:%S GMT": the date to the second
FormatString(time) == time \div 2

\* Time::parse_from_str of such a date
ParseFromStr(s) == s * 2

\* Cookie::expires_string: the date that lies expires after Time::now(), at
ExpiresString(cookie, at) == FormatString(at + cookie.expires[1])

\* Cookie::to_string when Time::now() is at
CookieToString(cookie, at) ==
    <<IF cookie.name = "" \/ cookie.value = "" THEN <<"">>
      ELSE <<cookie.name, cookie.value>>>>
    \o (IF cookie.path # <<>> THEN <<<<"Path", cookie.path[1]>>>> ELSE <<>>)
    \o (IF cookie.domain # <<>> THEN <<<<"Domain", cookie.domain[1]>>>> ELSE <<>>)
    \o (IF cookie.expires # <<>>
        THEN <<<<"Expires", ExpiresString(cookie, at)>>>> ELSE <<>>)
    \o (IF cookie.httponly THEN <<<<"HttpOnly">>>> ELSE <<>>)
    \o (IF cookie.secure THEN <<<<"Secure">>>> ELSE <<>>)
    \o (IF cookie.max_age # <<>> THEN <<<<"Max-Age", cookie.max_age[1]>>>> ELSE <<>>)
    \o (IF cookie.same_site # <<>>
        THEN <<<<"SameSite", cookie.same_site[1]>>>> ELSE <<>>)

\* str::to_lowercase on the keys and values that occur
ToLowercase(s) ==
    CASE s = "Path" -> "path"
      [] s = "Domain" -> "domain"
      [] s = "Expires" -> "expires"
      [] s = "HttpOnly" -> "httponly"
      [] s = "Secure" -> "secure"
      [] s = "Max-Age" -> "max-age"
      [] s = "SameSite" -> "samesite"
      [] s = "None" -> "none"
      [] s = "Strict" -> "strict"
      [] s = "Lax" -> "lax"
      [] OTHER -> s

\* the samesite arm of read_set_cookies
SameSiteOf(parts) ==
    IF Len(parts) = 2
    THEN LET v == ToLowercase(parts[2]) IN
         IF v = "node" THEN <<"None">>
         ELSE IF v = "strict" THEN <<"Strict">>
         ELSE IF v = "lax" THEN <<"Lax">>
         ELSE <<>>
    ELSE <<>>

\* the body of the loop of read_set_cookies over the pieces: one piece
ReadPiece(cookie, parts) ==
    LET key == ToLowercase(parts[1])
        two == Len(parts) = 2
    IN  CASE key = "path" ->
                [cookie EXCEPT !.path = IF two THEN <<parts[2]>> ELSE <<>>]
          [] key = "domain" ->
                [cookie EXCEPT !.domain = IF two THEN <<parts[2]>> ELSE <<>>]
          [] key = "expires" ->
                [cookie EXCEPT !.expires =
                     IF two THEN <<ParseFromStr(parts[2])>> ELSE <<>>]
          [] key = "max-age" ->
                [cookie EXCEPT !.max_age = IF two THEN <<parts[2]>> ELSE <<>>]
          [] key = "secure" -> [cookie EXCEPT !.secure = TRUE]
          [] key = "httponly" -> [cookie EXCEPT !.httponly = TRUE]
          [] key = "samesite" -> [cookie EXCEPT !.same_site = SameSiteOf(parts)]
          [] OTHER ->
                IF two THEN [cookie EXCEPT !.name = parts[1], !.value = parts[2]]
                ELSE cookie

\* the loop of read_set_cookies over the pieces from index i
RECURSIVE ReadLoop(_, _, _)
ReadLoop(pieces, i, cookie) ==
    IF i > Len(pieces) THEN cookie
    ELSE ReadLoop(pieces, i + 1, ReadPiece(cookie, pieces[i]))

\* Cookie::read_set_cookies on one Set-Cookie value
ReadSetCookie(pieces) == ReadLoop(pieces, 1, CookieDefault)

CookieInit ==
    /\ ckPc = "idle"
    /\ ckCookie = CookieDefault
    /\ ckHeader = <<>>
    /\ ckRead = CookieDefault

\* Response::add_set_cookie: the header takes cookie.to_string()
AddSetCookie(cookie, at) ==
    /\ ckPc = "idle"
    /\ ckCookie' = cookie
    /\ ckHeader' = CookieToString(cookie, at)
    /\ ckPc' = "set"
    /\ UNCHANGED ckRead
    /\ UNCHANGED nonCookieVars

\* Response::read_set_cookies on the header
ReadSetCookies ==
    /\ ckPc = "set"
    /\ ckRead' = ReadSetCookie(ckHeader)
    /\ ckPc' = "read"
    /\ UNCHANGED <<ckCookie, ckHeader>>
    /\ UNCHANGED nonCookieVars

\* the next response
CookieReset ==
    /\ ckPc = "read"
    /\ ckPc' = "idle"
    /\ ckCookie' = CookieDefault
    /\ ckHeader' = <<>>
    /\ ckRead' = CookieDefault
    /\ UNCHANGED nonCookieVars

CookieNext ==
    \/ /\ ckPc = "idle"
       /\ \E cookie \in Cookies, at \in 2..MaxTicks : AddSetCookie(cookie, at)
    \/ ReadSetCookies
    \/ CookieReset

(***************************************************************************)
(* One TcpStreamer of the client's pool: HttpClient::send and obtain on the *)
(* one side, the streamer's check_keepalive thread on the other             *)
(* (client/client.rs).                                                      *)
(***************************************************************************)
\* no streamer exists yet: the host's channel is empty
StreamerInit ==
    /\ skPc = "none"
    /\ skAlive = FALSE
    /\ skChannel = <<>>
    /\ skWd = "none"
    /\ skExpect = 0
    /\ skNow = 0
    /\ skShutAt = NoTime
    /\ skHandedAt = NoTime
    /\ skBreak = FALSE
    /\ skUses = 0

\* obtain, the Err arm of try_recv: stream() and TcpStreamer::from, which spawns
\* check_keepalive
TcpStreamerFrom ==
    /\ skPc = "none"
    /\ skAlive' = TRUE
    /\ skWd' = "spawned"
    /\ skPc' = "exchange"
    /\ UNCHANGED <<skChannel, skExpect, skNow, skShutAt, skHandedAt, skBreak, skUses>>
    /\ UNCHANGED nonStreamerVars

\* HttpClient::send after obtain: Responser::from, which fails on a socket that
\* was shut down (the streamer is dropped); then Check::Break for a response that
\* closes, or the streamer goes back to the host's channel
StreamerSendDone(close) ==
    /\ skPc = "exchange"
    /\ IF skShutAt # NoTime
       THEN /\ skPc' = "dropped"
            /\ UNCHANGED <<skChannel, skBreak>>
       ELSE IF close
            THEN /\ Len(skChannel) < 1
                 /\ skChannel' = Append(skChannel, "Break")
                 /\ skBreak' = TRUE
                 /\ skPc' = "closed"
            ELSE /\ skPc' = "pooled"
                 /\ UNCHANGED <<skChannel, skBreak>>
    /\ UNCHANGED <<skAlive, skWd, skExpect, skNow, skShutAt, skHandedAt, skUses>>
    /\ UNCHANGED nonStreamerVars

\* obtain: channel.read().unwrap().try_recv() yields the streamer and
\* src.alive.load(Acquire) is read; a streamer that is not alive is dropped
ObtainRecv ==
    /\ skPc = "pooled"
    /\ skUses < MaxReqs
    /\ skUses' = skUses + 1
    /\ skPc' = IF skAlive THEN "update" ELSE "dropped"
    /\ UNCHANGED <<skAlive, skChannel, skWd, skExpect, skNow, skShutAt, skHandedAt,
                   skBreak>>
    /\ UNCHANGED nonStreamerVars

\* obtain: src.channel.send(Check::Update), which waits for room in the bounded
\* channel, and the return of src.try_clone()
ObtainUpdate ==
    /\ skPc = "update"
    /\ Len(skChannel) < 1
    /\ skChannel' = Append(skChannel, "Update")
    /\ skHandedAt' = skNow
    /\ skPc' = "exchange"
    /\ UNCHANGED <<skAlive, skWd, skExpect, skNow, skShutAt, skBreak, skUses>>
    /\ UNCHANGED nonStreamerVars

\* check_keepalive, before its loop: expect_time = Time::now() + keepalive
StreamerKeepaliveStart ==
    /\ skWd = "spawned"
    /\ skExpect' = skNow + KeepAlive
    /\ skWd' = "running"
    /\ UNCHANGED <<skPc, skAlive, skChannel, skNow, skShutAt, skHandedAt, skBreak, skUses>>
    /\ UNCHANGED nonStreamerVars

\* check_keepalive, one turn of its loop that changes something: on the deadline
\* alive.store(false) and break; else try_recv yields Update (expect_time = now +
\* keepalive) or Break (break)
StreamerKeepaliveStep ==
    /\ skWd = "running"
    /\ IF skExpect <= skNow
       THEN /\ skAlive' = FALSE
            /\ skWd' = "left"
            /\ UNCHANGED <<skChannel, skExpect>>
       ELSE /\ skChannel # <<>>
            /\ skChannel' = Tail(skChannel)
            /\ IF Head(skChannel) = "Update"
               THEN /\ skExpect' = skNow + KeepAlive
                    /\ UNCHANGED skWd
               ELSE /\ skWd' = "left"
                    /\ UNCHANGED skExpect
            /\ UNCHANGED skAlive
    /\ UNCHANGED <<skPc, skNow, skShutAt, skHandedAt, skBreak, skUses>>
    /\ UNCHANGED nonStreamerVars

\* check_keepalive, after its loop: streamer.inner.shutdown(Shutdown::Both)
StreamerShutdown ==
    /\ skWd = "left"
    /\ skShutAt' = skNow
    /\ skWd' = "done"
    /\ UNCHANGED <<skPc, skAlive, skChannel, skExpect, skNow, skHandedAt, skBreak, skUses>>
    /\ UNCHANGED nonStreamerVars

\* the clock advances
StreamerTick ==
    /\ skNow < MaxTime
    /\ skNow' = skNow + 1
    /\ UNCHANGED <<skPc, skAlive, skChannel, skWd, skExpect, skShutAt, skHandedAt,
                   skBreak, skUses>>
    /\ UNCHANGED nonStreamerVars

StreamerNext ==
    \/ TcpStreamerFrom
    \/ \E close \in BOOLEAN : StreamerSendDone(close)
    \/ ObtainRecv
    \/ ObtainUpdate
    \/ StreamerKeepaliveStart
    \/ StreamerKeepaliveStep
    \/ StreamerShutdown
    \/ StreamerTick

(***************************************************************************)
(* The loops that collect a body of Content-Length > 0 bytes:               *)
(* Request::parse (http/request.rs) and Requester::fill_body                *)
(* (http/requester.rs), with a peer that sends fewer, as many or more bytes *)
(* than announced, in pieces, and closes.                                   *)
(***************************************************************************)
Parsers == {"Request", "Requester"}

ReadInit ==
    /\ rdPc = "idle"
    /\ rdParser = "Request"
    /\ rdLen = 0
    /\ rdIncoming = 0
    /\ rdToSend = 0
    /\ rdClosed = FALSE
    /\ rdCount = 0
    /\ rdSize = 0

\* the parser reaches its loop: Content-Length is n, the peer sends total body
\* bytes in all, and the first read held k of them.  Request::parse starts
\* with count = size = k; fill_body has taken one body byte before
\* (len = len - 1, size one less)
ReadBegin(parser, n, total, k) ==
    /\ rdPc = "idle"
    /\ rdParser' = parser
    /\ rdToSend' = total - k
    /\ rdIncoming' = 0
    /\ rdClosed' = FALSE
    /\ rdLen' = IF parser = "Request" THEN n ELSE n - 1
    /\ rdSize' = IF parser = "Request" THEN k ELSE k - 1
    /\ rdCount' = IF parser = "Request" THEN k ELSE k - 1
    /\ rdPc' = "loop"
    /\ UNCHANGED nonReadVars

\* the test at the head of the loop of Request::parse
RequestBreaks == rdCount = rdLen

\* the test at the head of the loop of fill_body
RequesterBreaks == rdCount = rdLen \/ rdSize = 0

\* one turn of the loop: break, or reread_stream and count += size.  A read
\* returns some of the bytes that have arrived; with none it waits while the
\* peer has not closed and returns 0 once it has
BodyLoop(k) ==
    /\ rdPc = "loop"
    /\ IF (rdParser = "Request" /\ RequestBreaks)
          \/ (rdParser = "Requester" /\ RequesterBreaks)
       THEN /\ k = 0
            /\ rdPc' = "done"
            /\ UNCHANGED <<rdIncoming, rdCount, rdSize>>
       ELSE /\ IF rdIncoming > 0 THEN k \in 1..rdIncoming
               ELSE k = 0 /\ rdClosed
            /\ rdSize' = k
            /\ rdIncoming' = rdIncoming - k
            /\ rdCount' = rdCount + k
            /\ UNCHANGED rdPc
    /\ UNCHANGED <<rdParser, rdLen, rdToSend, rdClosed>>
    /\ UNCHANGED nonReadVars

\* the peer sends k more body bytes
ReadPeerSend(k) ==
    /\ rdPc = "loop"
    /\ ~rdClosed
    /\ k <= rdToSend
    /\ rdToSend' = rdToSend - k
    /\ rdIncoming' = rdIncoming + k
    /\ UNCHANGED <<rdPc, rdParser, rdLen, rdClosed, rdCount, rdSize>>
    /\ UNCHANGED nonReadVars

\* the peer has sent all it had and closes
ReadPeerClose ==
    /\ rdPc = "loop"
    /\ ~rdClosed
    /\ rdToSend = 0
    /\ rdClosed' = TRUE
    /\ UNCHANGED <<rdPc, rdParser, rdLen, rdIncoming, rdToSend, rdCount, rdSize>>
    /\ UNCHANGED nonReadVars

\* the next connection
ReadReset ==
    /\ rdPc = "done"
    /\ rdPc' = "idle"
    /\ rdParser' = "Request"
    /\ rdLen' = 0
    /\ rdIncoming' = 0
    /\ rdToSend' = 0
    /\ rdClosed' = FALSE
    /\ rdCount' = 0
    /\ rdSize' = 0
    /\ UNCHANGED nonReadVars

ReadNext ==
    \/ /\ rdPc = "idle"
       /\ \E parser \in Parsers, n \in 1..MaxLen, total \in 1..(MaxLen + 1) :
            \E k \in 1..total : ReadBegin(parser, n, total, k)
    \/ \E k \in 0..(MaxLen + 1) : BodyLoop(k)
    \/ \E k \in 1..(MaxLen + 1) : ReadPeerSend(k)
    \/ ReadPeerClose
    \/ ReadReset

(***************************************************************************)
(* Specifications                                                          *)
(***************************************************************************)
Init == PoolInit /\ ConnInit /\ LimitInit /\ ClientInit /\ ReuseInit /\ RouteInit
        /\ CtxInit
        /\ FormInit
        /\ FillInit
        /\ ParseInit
        /\ CloseInit
        /\ RootInit
        /\ EncInit
        /\ MethodInit
        /\ CookieInit
        /\ StreamerInit
        /\ ReadInit

SpecPool == Init /\ [][PoolNext]_vars

SpecConn == Init /\ [][ConnNext]_vars

SpecLimit == Init /\ [][LimitNext]_vars

\* the thread in Limit::run spins without a pause, a receiver blocked in
\* crossbeam's recv is woken when a token is there, and time goes on
SpecLimitFair ==
    /\ Init /\ [][LimitNextOn]_vars
    /\ WF_vars(LimitRun)
    /\ WF_vars(LimitRunSent)
    /\ WF_vars(LimitAdmit)
    /\ WF_vars(LimitTickOn)

SpecClient == Init /\ [][ClientNext]_vars

SpecReuse == Init /\ [][ReuseNext]_vars

SpecRoute == Init /\ [][RouteNext]_vars

SpecCtx == Init /\ [][CtxNext]_vars

SpecRead == Init /\ [][ReadNext]_vars

\* the thread that parses is scheduled; the peer owes nothing
SpecReadFair ==
    /\ SpecRead
    /\ WF_vars(\E k \in 0..(MaxLen + 1) : BodyLoop(k))

SpecStreamer == Init /\ [][StreamerNext]_vars

SpecCookie == Init /\ [][CookieNext]_vars

SpecMethod == Init /\ [][MethodNext]_vars

SpecEnc == Init /\ [][EncNext]_vars

SpecRoot == Init /\ [][RootNext]_vars

SpecClose == Init /\ [][CloseNext]_vars

SpecParse == Init /\ [][ParseNext]_vars

SpecFill == Init /\ [][FillNext]_vars

SpecForm == Init /\ [][FormNext]_vars

\* the threads of the server are scheduled: the worker in handle_connection and
\* the check_keepalive thread each take their next step; the peer and the clock
\* owe nothing
SpecConnFair ==
    /\ SpecConn
    /\ WF_vars(ExecStreamRead)
    /\ WF_vars(ExecStreamDone)
    /\ WF_vars(CheckKeepaliveStart)
    /\ WF_vars(CheckKeepaliveStep)

\* the threads of the server are scheduled and time passes; the peer owes
\* nothing
SpecConnTimed ==
    /\ SpecConnFair
    /\ WF_vars(Tick)

\* count is the number of live handles (the user's and the monitor's clone), and
\* active_count the number of workers not yet panicked: neither is decremented at 0
CountersNeverWrap ==
    /\ count = handles + (IF monitor.pc \in {"panicked", "exited"} THEN 0 ELSE 1)
    /\ active_count >= 0

(***************************************************************************)
(* Claims about the worker pool                                            *)
(***************************************************************************)

\* C1: once the monitor has taken Fill(i) it handles it to completion: it is never
\* stuck or dead, and whenever it waits for the next notification the worker
\* vector again holds pool_size workers.
C1_FillInstallsReplacement ==
    /\ monitor.pc \notin {"deadlock", "panicked"}
    /\ (monitor.pc = "recv" => Len(threads) = PoolSize)

\* C8: execute never grows a queue beyond its bound and never blocks; it answers
\* by delivering Run(task) to the worker at the head of the idle queue exactly when
\* one was there, else by queueing, and with "the task queue is full" exactly when
\* no idle worker was there and the task queue held task_count tasks; a rejected
\* task is never queued, delivered or run.
C8_ExecuteNeverBlocksNorGrows ==
    /\ Len(task_queue) <= TaskCount
    /\ Len(worker_idle_queue) <= PoolSize
    /\ (caller.pc = "push" => ENABLED ExecutePush)
    /\ lastExec.result # "panic"
    /\ (lastExec.result = "run" <=> lastExec.idle # <<>>)
    /\ (lastExec.result = "run" =>
            \/ \E k \in 1..Len(workers[Head(lastExec.idle)].rx) :
                  workers[Head(lastExec.idle)].rx[k] = Message("Run", lastExec.task)
            \/ lastExec.task \in started)
    /\ (lastExec.result = "queued" =>
            /\ Len(lastExec.queue) < TaskCount
            /\ \/ \E k \in 1..Len(task_queue) : task_queue[k] = lastExec.task
               \/ lastExec.task \in Delivered \cup started)
    /\ (lastExec.result = "full" => Len(lastExec.queue) = TaskCount)
    /\ (lastExec.result \in {"queued", "full"} /\ Len(lastExec.queue) = TaskCount
            => lastExec.result = "full")
    /\ \A t \in rejected :
            /\ t \notin started \cup Delivered
            /\ \A k \in 1..Len(task_queue) : task_queue[k] # t

\* C8 witness: a call found no idle worker and a full task queue and was refused
C8_Witness ==
    /\ lastExec.result = "full"
    /\ lastExec.task \in rejected
    /\ Len(task_queue) = TaskCount

\* C9: when the last ThreadPool handle of the user is dropped, Close is sent to
\* every worker and to the monitor.
C9_LastDropSendsClose ==
    (handles = 0) => closeSent

(***************************************************************************)
(* Claims about the server connection                                      *)
(***************************************************************************)

\* C2: an exchange whose parsed request has the close flag set is the last one on
\* its connection: no request is read after it, on the first exchange or later.
C2_CloseFlagEndsConnection ==
    \A i \in 1..Len(exchanges) : exchanges[i].kind = "close" => i = Len(exchanges)

C10_MalformedEndsConnection ==
    \A i \in 1..Len(exchanges) : exchanges[i].kind = "malformed" => i = Len(exchanges)

\* C11: the watchdog's shutdown on the deadline never comes earlier than
\* keepalive after the latest Update that loop_exec had sent by then.
C11_DeadlineExtendedByUpdate ==
    (wdTimedOut /\ shutInfo.lastUpdate # NoTime)
        => shutInfo.at >= shutInfo.lastUpdate + keepalive

\* C12: when request i+1 of a connection is parsed, the writes of the responses
\* to requests 1..i have returned, in the order of the requests.
C12_ResponseBeforeNextParse ==
    /\ Len(exchanges) - 1 <= Len(responses)
    /\ Len(responses) <= Len(exchanges)
    /\ \A i \in 1..Len(responses) : responses[i] = exchanges[i].id

C12_Witness ==
    /\ connPc = "loop_exec"
    /\ Len(exchanges) = 3
    /\ responses = <<1, 2>>
    /\ inbox = <<>>

(***************************************************************************)
(* Claims about the rate limiter                                           *)
(***************************************************************************)

\* C6: no window of length section holds more than count admissions: admission
\* k+count comes at least section after admission k.
C6_AtMostCountPerSection ==
    \A k \in 1..(Len(admissions) - Count) :
        admissions[k + Count] - admissions[k] >= Section

\* C7: two consecutive admissions are at least interval apart, also after a time
\* in which no request was waiting.
C7_AdmissionsIntervalApart ==
    \A k \in 1..(Len(admissions) - 1) :
        admissions[k + 1] - admissions[k] >= Interval

\* C14: every request that entered Limit::recv is admitted in the end: the
\* admissions catch up with the arrivals, none is given up or failed.
C14_WaiterEventuallyAdmitted ==
    \A n \in 1..MaxWaiters : (arrived >= n) ~> (Len(admissions) >= n)

C14_Witness ==
    /\ arrived = MaxWaiters
    /\ waiting = 0
    /\ Len(admissions) = MaxWaiters
    /\ tokens = 0
    /\ times[1] = 0
    /\ clock = MaxClock

(***************************************************************************)
(* Claims about the client's connection pool                               *)
(***************************************************************************)

\* C5: a keep-alive request to a host without a channel gets its channel
\* created and its streamer returned: no caller is left blocked for ever or
\* panicked in create_stream_channel.
C5_FirstRequestCreatesChannel ==
    \A c \in Clients : cli[c].pc \notin {"deadlock", "panicked"}

\* CLIENT_STREAM_MAP never gets an entry, so no streamer is ever handed out
\* of a host's channel.
StreamMapStaysEmpty ==
    /\ DOMAIN streamMap = {}
    /\ \A c \in Clients : cli[c].streamer = NoStreamer

InstanceOf(path, pattern) ==
    /\ Len(path) = Len(pattern)
    /\ \A j \in 1..Len(pattern) : IsWild(pattern[j]) \/ pattern[j] = path[j]

\* the wildcard names of pattern with the segments of path put for them
Bindings(pattern, path) ==
    {<<WildName[pattern[j]], path[j]>> : j \in {i \in 1..Len(pattern) : IsWild(pattern[i])}}

\* no wildcard name occurs twice in pattern
DistinctNames(pattern) ==
    \A i, j \in 1..Len(pattern) :
        (IsWild(pattern[i]) /\ IsWild(pattern[j]) /\ pattern[i] = pattern[j]) => i = j

\* the registered patterns that path is an instance of
Matching(path) == {i \in 1..Len(routes) : InstanceOf(path, routes[i])}

\* C15: a lookup of a path made from a registered pattern p returns p's
\* handler and binds exactly p's wildcard names to the segments put for them
\* (checked where p is the only registered pattern the path can come from).
C15_LookupReturnsPattern ==
    fetched.outcome # "none" =>
        \A i \in 1..Len(routes) :
            (DistinctNames(routes[i]) /\ Matching(fetched.path) = {i}) =>
                /\ fetched.found
                /\ nodes[fetched.node].pattern = i
                /\ fetched.fields = Bindings(routes[i], fetched.path)

\* the node whose next_nodes holds n
Parent(n) == CHOOSE m \in 1..Len(nodes) :
                 \E k \in 1..Len(nodes[m].next_nodes) : nodes[m].next_nodes[k] = n

RECURSIVE RouteTo(_)
\* the nodes from below the root down to n
RouteTo(n) == IF n = 1 THEN <<>> ELSE Append(RouteTo(Parent(n)), n)

\* the children of node m with the given pattern_piece
KidsWith(m, piece) ==
    {nodes[m].next_nodes[k] : k \in {i \in 1..Len(nodes[m].next_nodes) :
                                         nodes[nodes[m].next_nodes[i]].pattern_piece = piece}}

\* below node n the rest of path, from segment j + 1 on, finds a node
Leads(n, path, j) ==
    FetchSplit(nodes, n, path, j).is_self \/ FetchSplit(nodes, n, path, j).src.found

\* C16: where a node has a literal child and a wildcard child and the request's
\* segment is the literal child's label, the lookup goes through the literal
\* child, in whatever order the two were registered (checked where the literal
\* child leads to a node for the rest of the path).
C16_LiteralBeatsWildcard ==
    fetched.found =>
        LET route == RouteTo(fetched.node)
        IN  \A j \in 1..Len(route) :
                (/\ \E c \in KidsWith(Parent(route[j]), fetched.path[j]) :
                        Leads(c, fetched.path, j)
                 /\ KidsWith(Parent(route[j]), "?") # {})
                    => nodes[route[j]].pattern_piece = fetched.path[j]

\* pattern has no wildcard segment
IsLiteral(pattern) == \A j \in 1..Len(pattern) : ~IsWild(pattern[j])

\* C17: when a wildcard pattern and a literal pattern both match the request
\* path, the handler of the one registered later is not the one executed.
C17_FirstRegisteredWins ==
    fetched.found =>
        \A i, j \in Matching(fetched.path) :
            (i < j /\ IsLiteral(routes[i]) # IsLiteral(routes[j]))
                => nodes[fetched.node].pattern # j

\* C18: a path that is no instance of a registered pattern, such as a strict
\* prefix of one, is answered 404 and nothing is dispatched.
C18_NoHandlerIsNotFound ==
    (fetched.outcome # "none" /\ Matching(fetched.path) = {})
        => fetched.outcome = "404"

(***************************************************************************)
(* Claims about filters, handler and response                              *)
(***************************************************************************)
\* the filters of the chain that call context.response()
Marking == {k \in 1..Len(filters) : filters[k] > 0}

\* C19: for an admitted request, the filters run in order up to the first one
\* that marks the context executed; after it no filter runs and the handler is
\* not invoked; when no filter marks it, the handler is invoked exactly once.
C19_FilterShortCircuits ==
    limit # "closed" =>
        /\ \A i \in 1..Len(filtersRun) :
               /\ filtersRun[i] = i
               /\ \A k \in Marking : k >= i
        /\ handlerRuns <= 1
        /\ handlerRuns = 1 => Marking = {}
        /\ exPc = "done" => (handlerRuns = 1 <=> Marking = {})

C19_Witness ==
    /\ exPc = "done"
    /\ limit = "ok"
    /\ Len(filters) = MaxFilters
    /\ Marking = {2, 3}
    /\ filtersRun = <<1, 2>>
    /\ handlerRuns = 0

\* C20: however often Context::response is called in one exchange, one
\* response is written to the socket.
C20_ResponseWrittenOnce ==
    written <= 1

\* C21: once interrupt has written its diagnostic response in an exchange, no
\* further response is written to the socket in that exchange.
C21_NothingWrittenAfterInterrupt ==
    interruptAt > 0 => Len(wire) = interruptAt

C21_ResponseAfterInterrupt ==
    /\ interruptAt = 1
    /\ wire = <<"400", "response">>

\* C30: the body is parsed by the first call of form or multipart_form and by
\* no later one; from then on the reader is empty, the cached forms stay as
\* that parse left them, every later call returns the cached form, and the
\* raw body accessor returns nothing.
C30_BodyParsedOnce ==
    body_parse =>
        /\ parses = 1
        /\ reader = <<>>
        /\ form = firstForm.form
        /\ multipart_form = firstForm.files
        /\ (lastCall.op = "form" /\ lastCall.ok) => lastCall.value = firstForm.form
        /\ (lastCall.op = "multipart_form" /\ lastCall.ok)
               => lastCall.value = firstForm.files
        /\ lastCall.op = "body" => lastCall.value = <<>>

C30_Witness ==
    /\ body_parse
    /\ ops = MaxOps
    /\ lastCall.op = "form"
    /\ ~lastCall.parsed
    /\ lastCall.value = firstForm.form
    /\ firstForm.form = {<<<<"k">>, <<"k">>>>}

\* C22: the limiter is waited on before any filter or the handler runs; when
\* the wait fails the exchange is answered 403 once, no filter runs and the
\* handler is not invoked; 403 is answered in no other case.
C22_LimiterBeforeFilters ==
    /\ exPc = "limit" => (filtersRun = <<>> /\ handlerRuns = 0 /\ written = 0)
    /\ (limit = "closed" /\ exPc \notin {"idle", "limit"}) =>
           /\ forbidden
           /\ written = 1
           /\ filtersRun = <<>>
           /\ handlerRuns = 0
    /\ forbidden => limit = "closed"

C22_Witness ==
    /\ exPc = "done"
    /\ limit = "closed"
    /\ forbidden
    /\ Len(filters) = MaxFilters
    /\ Marking = {}
    /\ handlerCalls > 0
    /\ handlerRuns = 0

\* C26: the body set for a request with Content-Length N >= 0 has exactly N
\* bytes, however the reads split it; with Content-Length -1 the body is all
\* the bytes the client sent until it closed.
C26_BodyHasContentLength ==
    fillPc = "done" =>
        /\ content_len >= 0 => Len(bw) = content_len
        /\ content_len = -1 => bw = sent

C26_ShortBody ==
    /\ fillPc = "done"
    /\ content_len = 3
    /\ sent = <<"x", "x", "x">>
    /\ bw = <<"x">>

\* a request line of three tokens with a method, an absolute path and a
\* known version
WellFormed(line) ==
    /\ Len(line) = 3
    /\ MethodFromBytes(line[1]).ok
    /\ Absolute(line[2])
    /\ VersionFromBytes(line[3])

C24_RequestLineErrors ==
    (psPc \notin {"read"} /\ Len(psReq.line) = 3) =>
        /\ ~MethodFromBytes(psReq.line[1]).ok => (psStatus = "405" /\ ~psHandled)
        /\ (MethodFromBytes(psReq.line[1]).ok /\ ~Absolute(psReq.line[2]))
               => (psStatus = "400" /\ ~psHandled)
        /\ (MethodFromBytes(psReq.line[1]).ok /\ Absolute(psReq.line[2])
                /\ ~VersionFromBytes(psReq.line[3]))
               => (psStatus = "505" /\ ~psHandled)

C24_BadPathPanics ==
    /\ psPc = "panic"
    /\ psReq.line = <<"GET", "abc", "HTTP/1.1">>
    /\ psStatus = ""

\* the Connection header of h has the value v
Connection(h, v) == <<"Connection", v>> \in h

\* C25: check_close returns true for HTTP/1.0 unless the Connection header
\* says keep-alive, and for HTTP/1.1 only if the Connection header says close.
C25_CloseFollowsConnectionHeader ==
    ccResult # "none" =>
        /\ ccVersion = "HTTP/1.0" =>
               (ccResult = "true" <=> ~Connection(ccHeader, "keep-alive"))
        /\ ccVersion = "HTTP/1.1" =>
               (ccResult = "true" <=> Connection(ccHeader, "close"))

C25_ConnectionCloseIgnored ==
    /\ ccVersion = "HTTP/1.1"
    /\ ccHeader = {<<"Connection", "close">>}
    /\ ~ccRemove
    /\ ccResult = "false"

\* C27: after any registrations no node has two children with the same
\* pattern_piece: at most one child per literal segment and at most one
\* wildcard child, so patterns with a common prefix share its nodes.
C27_OneChildPerSegment ==
    \A n \in 1..Len(nodes) :
        \A i, j \in 1..Len(nodes[n].next_nodes) :
            nodes[nodes[n].next_nodes[i]].pattern_piece
                = nodes[nodes[n].next_nodes[j]].pattern_piece
            => i = j

C27_Witness ==
    /\ routes = << <<"a", "a">>, <<"a", ":x">>, <<"a", "b">> >>
    /\ Len(nodes) = 5
    /\ Len(nodes[1].next_nodes) = 1
    /\ Len(nodes[2].next_nodes) = 3

\* C28: a registration under a method changes the tree of that method and of
\* no other, and a lookup of a path under a method finds a node only if a
\* pattern that the path comes from was registered under that method.
C28_MethodsAreSeparate ==
    /\ \A m \in Methods : m # rtLast => roots[AddField(m)] = rtPrev[AddField(m)]
    /\ rtFetched.found =>
           \E r \in rtAdded : r[1] = rtFetched.method /\ InstanceOf(rtFetched.path, r[2])

C28_UnregisteredPathFound ==
    /\ rtAdded = {<<"GET", <<"a", "b">>>>, <<"POST", <<"a">>>>}
    /\ rtFetched = [method |-> "GET", path |-> <<"a">>, found |-> TRUE]

\* C29: when no filter answers, the filters that run are first the filters of
\* the route's Extend in their order, then the filters of the group's Extend
\* in their order.
C29_RouteFiltersThenGroupFilters ==
    (exPc \in {"handler", "done"} /\ limit # "closed" /\ Marking = {}) =>
        /\ Len(filtersRun) = Len(origin)
        /\ \E r \in 0..Len(origin) :
               /\ \A i \in 1..r : origin[filtersRun[i]] = <<"route", i>>
               /\ \A i \in (r + 1)..Len(origin) : origin[filtersRun[i]] = <<"group", i - r>>

C29_Witness ==
    /\ exPc = "done"
    /\ origin = << <<"route", 1>>, <<"group", 1>>, <<"group", 2>> >>
    /\ filtersRun = <<1, 2, 3>>
    /\ handlerRuns = 1

\* C31: Accept-Encoding negotiation prefers gzip to deflate to zlib and
\* ignores br: "br, gzip, deflate" selects gzip, "br" alone selects nothing
\* and "deflate, zlib" selects deflate.
C31_BestPicksByPreference ==
    /\ aeHeader = <<"br", " gzip", " deflate">> => aeResult = "gzip"
    /\ aeHeader = <<"br">> => aeResult = "None"
    /\ aeHeader = <<"deflate", " zlib">> => aeResult = "deflate"

C31_SpacedGzipNotChosen ==
    /\ aeHeader = <<"br", " gzip", " deflate">>
    /\ aeResult = "None"

\* C32 as stated: from_bytes of the as_str of each of the twelve methods is
\* that method, and from_bytes fails for every byte sequence that is not the
\* name of one of the twelve.
C32_RoundTripAndClosed ==
    mtResult # MtPending =>
        /\ mtOf # "none" => mtResult = MtOk(mtOf)
        /\ mtResult.ok <=> \E method \in Inner : AsStr(method) = mtSrc

\* C32 amended: from_bytes of the as_str of each of the twelve methods is
\* that method; the empty byte sequence parses as GET; from_bytes fails for
\* every other byte sequence that is not the name of one of the twelve.
C32_RoundTripAndClosedButEmpty ==
    mtResult # MtPending =>
        /\ mtOf # "none" => mtResult = MtOk(mtOf)
        /\ mtSrc = <<>> => mtResult = MtOk("Get")
        /\ mtResult.ok <=> (mtSrc = <<>> \/ \E method \in Inner : AsStr(method) = mtSrc)

C32_Witness ==
    /\ mtOf = "Pri"
    /\ mtSrc = <<"P", "R", "I">>
    /\ mtResult = MtOk("Pri")

\* C33: for every cookie built from the defined attributes, parsing its
\* serialized Set-Cookie value with read_set_cookies yields an equal cookie.
C33_SetCookieRoundTrip ==
    ckPc = "read" => ckRead = ckCookie

C33_SameSiteNoneLost ==
    /\ ckPc = "read"
    /\ ckCookie = [CookieDefault EXCEPT !.name = "k", !.value = "v",
                                        !.same_site = <<"None">>]
    /\ ckHeader = <<<<"k", "v">>, <<"SameSite", "None">>>>
    /\ ckRead = [CookieDefault EXCEPT !.name = "k", !.value = "v"]

\* the pool is at rest: no call of execute is under way, no notification is
\* pending, the monitor waits for one, and no worker runs a task or has a
\* message to take
PoolAtRest ==
    /\ caller.pc = "ready"
    /\ notify = <<>>
    /\ monitor.pc = "recv"
    /\ \A w \in 1..MaxWorkers : workers[w].st # "running" /\ workers[w].rx = <<>>

\* C34: a task that execute accepted is started even when no further task is
\* submitted: when every running task has ended without a panic and the pool
\* has come to rest, no accepted task is left in the task queue while a
\* worker sits in the idle queue.
C34_AcceptedTaskIsStarted ==
    (PoolAtRest /\ panic_count = 0 /\ ~closeSent /\ worker_idle_queue # <<>>)
        => task_queue = <<>>

C34_TaskStranded ==
    /\ PoolAtRest
    /\ panic_count = 0
    /\ handles = 1
    /\ started = {1, 2}
    /\ lastExec.task = 3
    /\ lastExec.result = "queued"
    /\ task_queue = <<3>>
    /\ Len(worker_idle_queue) = PoolSize

\* C35: the keep-alive watchdog never shuts the socket down while an exchange
\* is in progress, that is after the main loop has read a request and before
\* the response to it is written.
C35_NoShutdownDuringExchange ==
    [][(~sockShut /\ sockShut') => cur = NoRequest]_vars

C37_SilentConnectionIsClosed ==
    (connPc = "first_read" /\ sentReqs = 0) ~> (connPc = "returned" \/ sentReqs > 0)

C37_SilentClientHoldsWorker ==
    /\ connPc = "first_read"
    /\ sentReqs = 0
    /\ ~peerClosed
    /\ ~sockShut
    /\ wdPc = "none"
    /\ now = MaxTime

\* the workers whose thread is alive
LiveWorkers == {w \in 1..MaxWorkers : workers[w].st \in {"recv", "running"}}

\* how often the worker is listed in the idle queue
IdleListings(w) ==
    Cardinality({k \in 1..Len(worker_idle_queue) : worker_idle_queue[k] = w})

\* the tasks the worker holds: delivered to its channel, or running
TasksHeld(w) ==
    Cardinality({k \in 1..Len(workers[w].rx) : workers[w].rx[k].type = "Run"})
        + (IF workers[w].st = "running" THEN 1 ELSE 0)

\* the Idle notifications of the worker that the monitor has not handled
IdlePending(w) ==
    Cardinality({k \in 1..Len(notify) : notify[k] = Notify("Idle", workers[w].counter)})

\* C38: every live worker is in exactly one of three states: listed once in
\* the idle queue, holding one delivered task (pending or running), or
\* waiting for the monitor to handle its Idle notification; so the idle queue
\* never holds more than pool_size handles and at most pool_size tasks run.
C38_WorkerInOneState ==
    /\ \A w \in LiveWorkers : IdleListings(w) + TasksHeld(w) + IdlePending(w) = 1
    /\ Len(worker_idle_queue) <= PoolSize
    /\ Cardinality({w \in 1..MaxWorkers : workers[w].st = "running"}) <= PoolSize

C38_ReplacementInNoState ==
    \E w \in LiveWorkers :
        /\ w > PoolSize
        /\ IdleListings(w) = 0
        /\ TasksHeld(w) = 0
        /\ IdlePending(w) = 0
        /\ panic_count = 1

\* C39: reading a request body terminates: when the peer has sent fewer or
\* more body bytes than Content-Length announces and has closed the
\* connection, the parser returns.
C39_BodyReadTerminates ==
    (rdPc = "loop" /\ rdClosed) ~> (rdPc = "done")

C39_ReadsForEver ==
    /\ rdPc = "loop"
    /\ rdParser = "Request"
    /\ rdClosed
    /\ rdIncoming = 0
    /\ rdSize = 0
    /\ rdLen = 2
    /\ rdCount = 1

\* C40: the pool starts tasks in the order it accepted them: a task that was
\* placed in the task queue has been started by the time a task accepted
\* later starts, so while a task waits in the task queue no task accepted
\* after it has started.
C40_QueuedTaskStartsFirst ==
    \A k \in 1..Len(task_queue) : \A t \in started : t < task_queue[k]

C40_LaterTaskOvertakes ==
    /\ task_queue = <<3>>
    /\ started = {1, 2, 4}
    /\ panic_count = 0
    /\ rejected = {}

====
